---- MODULE Spec2Model ----
(***************************************************************************)
(* SM4 block cipher (T-table, AESNI and ModernISA backends) and the        *)
(* SM4-GCM authenticated-encryption mode of Project1_SM4.                  *)
(*                                                                         *)
(* Representation.  TLC integers are 32-bit signed, so a uint8_t is an     *)
(* integer in 0..255, a uint32_t is the tuple of its four base-256 digits, *)
(* most significant first, and a uint64_t the tuple of its eight digits.   *)
(* A byte buffer is a sequence of bytes; buf[k] of the C++ code is         *)
(* buf[k+1] here.                                                          *)
(***************************************************************************)
EXTENDS Integers, Sequences, FiniteSets, TLC

(***************************************************************************)
(* Machine arithmetic on uint8_t / uint32_t.                               *)
(***************************************************************************)
Byte == 0..255

\* e, after v has been computed: a C++ statement sequence computes v before
\* e, where a LET alone would leave v unevaluated until e needs it
Strict(v, e) == IF v = v THEN e ELSE e

\* the midpoint at which a loop over lo .. hi-1 is split in two halves
Mid(lo, hi) == (lo + hi) \div 2

Pow2(n) == <<1, 2, 4, 8, 16, 32, 64, 128, 256>>[n + 1]

\* a ^ b on 4-bit values: entry 16 * a + b + 1
XorNib == <<
     0,  1,  2,  3,  4,  5,  6,  7,  8,  9, 10, 11, 12, 13, 14, 15,
     1,  0,  3,  2,  5,  4,  7,  6,  9,  8, 11, 10, 13, 12, 15, 14,
     2,  3,  0,  1,  6,  7,  4,  5, 10, 11,  8,  9, 14, 15, 12, 13,
     3,  2,  1,  0,  7,  6,  5,  4, 11, 10,  9,  8, 15, 14, 13, 12,
     4,  5,  6,  7,  0,  1,  2,  3, 12, 13, 14, 15,  8,  9, 10, 11,
     5,  4,  7,  6,  1,  0,  3,  2, 13, 12, 15, 14,  9,  8, 11, 10,
     6,  7,  4,  5,  2,  3,  0,  1, 14, 15, 12, 13, 10, 11,  8,  9,
     7,  6,  5,  4,  3,  2,  1,  0, 15, 14, 13, 12, 11, 10,  9,  8,
     8,  9, 10, 11, 12, 13, 14, 15,  0,  1,  2,  3,  4,  5,  6,  7,
     9,  8, 11, 10, 13, 12, 15, 14,  1,  0,  3,  2,  5,  4,  7,  6,
    10, 11,  8,  9, 14, 15, 12, 13,  2,  3,  0,  1,  6,  7,  4,  5,
    11, 10,  9,  8, 15, 14, 13, 12,  3,  2,  1,  0,  7,  6,  5,  4,
    12, 13, 14, 15,  8,  9, 10, 11,  4,  5,  6,  7,  0,  1,  2,  3,
    13, 12, 15, 14,  9,  8, 11, 10,  5,  4,  7,  6,  1,  0,  3,  2,
    14, 15, 12, 13, 10, 11,  8,  9,  6,  7,  4,  5,  2,  3,  0,  1,
    15, 14, 13, 12, 11, 10,  9,  8,  7,  6,  5,  4,  3,  2,  1,  0 >>

\* a | b on 4-bit values: entry 16 * a + b + 1
OrNib == <<
     0,  1,  2,  3,  4,  5,  6,  7,  8,  9, 10, 11, 12, 13, 14, 15,
     1,  1,  3,  3,  5,  5,  7,  7,  9,  9, 11, 11, 13, 13, 15, 15,
     2,  3,  2,  3,  6,  7,  6,  7, 10, 11, 10, 11, 14, 15, 14, 15,
     3,  3,  3,  3,  7,  7,  7,  7, 11, 11, 11, 11, 15, 15, 15, 15,
     4,  5,  6,  7,  4,  5,  6,  7, 12, 13, 14, 15, 12, 13, 14, 15,
     5,  5,  7,  7,  5,  5,  7,  7, 13, 13, 15, 15, 13, 13, 15, 15,
     6,  7,  6,  7,  6,  7,  6,  7, 14, 15, 14, 15, 14, 15, 14, 15,
     7,  7,  7,  7,  7,  7,  7,  7, 15, 15, 15, 15, 15, 15, 15, 15,
     8,  9, 10, 11, 12, 13, 14, 15,  8,  9, 10, 11, 12, 13, 14, 15,
     9,  9, 11, 11, 13, 13, 15, 15,  9,  9, 11, 11, 13, 13, 15, 15,
    10, 11, 10, 11, 14, 15, 14, 15, 10, 11, 10, 11, 14, 15, 14, 15,
    11, 11, 11, 11, 15, 15, 15, 15, 11, 11, 11, 11, 15, 15, 15, 15,
    12, 13, 14, 15, 12, 13, 14, 15, 12, 13, 14, 15, 12, 13, 14, 15,
    13, 13, 15, 15, 13, 13, 15, 15, 13, 13, 15, 15, 13, 13, 15, 15,
    14, 15, 14, 15, 14, 15, 14, 15, 14, 15, 14, 15, 14, 15, 14, 15,
    15, 15, 15, 15, 15, 15, 15, 15, 15, 15, 15, 15, 15, 15, 15, 15 >>

\* uint8_t ^ uint8_t, the high and the low four bits apart
XorTab == [a \in Byte |-> [b \in Byte |->
             16 * XorNib[16 * (a \div 16) + (b \div 16) + 1]
                + XorNib[16 * (a % 16) + (b % 16) + 1] ]]

\* uint8_t | uint8_t
OrTab == [a \in Byte |-> [b \in Byte |->
            16 * OrNib[16 * (a \div 16) + (b \div 16) + 1]
               + OrNib[16 * (a % 16) + (b % 16) + 1] ]]

Xor8(a, b) == XorTab[a][b]

Or8(a, b) == OrTab[a][b]

\* the four digits f[1] .. f[4] as a tuple
Word(f) == << f[1], f[2], f[3], f[4] >>

\* uint32_t ^ uint32_t
Xor32(x, y) == Word([i \in 1..4 |-> XorTab[x[i]][y[i]]])

\* uint32_t | uint32_t
Or32(x, y) == Word([i \in 1..4 |-> OrTab[x[i]][y[i]]])

\* digit k of a word, 0 outside the word
Digit(w, k) == IF k >= 1 /\ k <= 4 THEN w[k] ELSE 0

\* the byte made of the low 8-r bits of hi, moved up by r, above the top r
\* bits of lo (0 <= r <= 8): one digit of a word shifted by r bits
Join(hi, lo, r) == ((hi * Pow2(r)) % 256) + (lo \div Pow2(8 - r))

\* uint32_t << n, 0 <= n < 32: whole digits move by n / 8, bits by n % 8,
\* and what is shifted out at the top is lost
Shl32(w, n) ==
  Word([i \in 1..4 |-> Join(Digit(w, i + (n \div 8)), Digit(w, i + (n \div 8) + 1),
                            n % 8)])

\* uint32_t >> n, 0 <= n < 32 (logical)
Shr32(w, n) ==
  Word([i \in 1..4 |-> Join(Digit(w, i - (n \div 8) - 1), Digit(w, i - (n \div 8)),
                            8 - (n % 8))])

\* static_cast<uint32_t>(b) of a uint8_t
U32(b) == <<0, 0, 0, b>>

ZeroWord == <<0, 0, 0, 0>>

\* the uint32_t at bytes 4i .. 4i+3 of a buffer, packed big-endian:
\* (buf[4i] << 24) | (buf[4i+1] << 16) | (buf[4i+2] << 8) | buf[4i+3]
Load32(buf, i) ==
  Or32(Or32(Or32(Shl32(U32(buf[4*i + 1]), 24), Shl32(U32(buf[4*i + 2]), 16)),
            Shl32(U32(buf[4*i + 3]), 8)),
       U32(buf[4*i + 4]))

\* static_cast<uint8_t>(w >> n): the low digit of the shifted word
U8Shr(w, n) == Join(Digit(w, 3 - (n \div 8)), Digit(w, 4 - (n \div 8)), 8 - (n % 8))

\* a 16-byte block from four words Y[0..3]: byte 4i+k of the block is
\* static_cast<uint8_t>(Y[i] >> (24 - 8k))
StoreBlock(Y) ==
  [j \in 1..16 |-> U8Shr(Y[((j - 1) \div 4) + 1], 24 - 8 * ((j - 1) % 4))]

\* the four words of a 16-byte block
LoadBlock(buf) == Word([i \in 1..4 |-> Load32(buf, i - 1)])

\* the words X[3], X[2], X[1], X[0] of the reverse transform
Reverse(X) == << X[4], X[3], X[2], X[1] >>

(***************************************************************************)
(* Primitive functions of namespace SM4 (declared in sm4.h).               *)
(***************************************************************************)
SBOX == <<
    214, 144, 233, 254, 204, 225,  61, 183,  22, 182,  20, 194,  40, 251,  44,   5,
     43, 103, 154, 118,  42, 190,   4, 195, 170,  68,  19,  38,  73, 134,   6, 153,
    156,  66,  80, 244, 145, 239, 152, 122,  51,  84,  11,  67, 237, 207, 172,  98,
    228, 179,  28, 169, 201,   8, 232, 149, 128, 223, 148, 250, 117, 143,  63, 166,
     71,   7, 167, 252, 243, 115,  23, 186, 131,  89,  60,  25, 230, 133,  79, 168,
    104, 107, 129, 178, 113, 100, 218, 139, 248, 235,  15,  75, 112,  86, 157,  53,
     30,  36,  14,  94,  99,  88, 209, 162,  37,  34, 124,  59,   1,  33, 120, 135,
    212,   0,  70,  87, 159, 211,  39,  82,  76,  54,   2, 231, 160, 196, 200, 158,
    234, 191, 138, 210,  64, 199,  56, 181, 163, 247, 242, 206, 249,  97,  21, 161,
    224, 174,  93, 164, 155,  52,  26,  85, 173, 147,  50,  48, 245, 140, 177, 227,
     29, 246, 226,  46, 130, 102, 202,  96, 192,  41,  35, 171,  13,  83,  78, 111,
    213, 219,  55,  69, 222, 253, 142,  47,   3, 255, 106, 114, 109, 108,  91,  81,
    141,  27, 175, 146, 187, 221, 188, 127,  17, 217,  92,  65,  31,  16,  90, 216,
     10, 193,  49, 136, 165, 205, 123, 189,  45, 116, 208,  18, 184, 229, 180, 176,
    137, 105, 151,  74,  12, 150, 119, 126, 101, 185, 241,   9, 197, 110, 198, 132,
     24, 240, 125, 236,  58, 220,  77,  32, 121, 238,  95,  62, 215, 203,  57,  72 >>


sbox(input) == SBOX[input + 1]

FK == << <<163, 177, 186, 198>>, <<86, 170, 51, 80>>,
         <<103, 125, 145, 151>>, <<178, 112, 34, 220>> >>

\* CK[i] has the bytes (4i+j)*7 mod 256, j = 0..3
CK == [i \in 1..32 |-> Word([j \in 1..4 |-> ((4 * (i - 1) + (j - 1)) * 7) % 256])]

leftRotate(value, bits) == Or32(Shl32(value, bits), Shr32(value, 32 - bits))

linearTransform(input) ==
  Xor32(Xor32(Xor32(Xor32(input, leftRotate(input, 2)), leftRotate(input, 10)),
              leftRotate(input, 18)), leftRotate(input, 24))

linearTransformPrime(input) ==
  Xor32(Xor32(input, leftRotate(input, 13)), leftRotate(input, 23))

\* bytes[0..3] = sbox(bytes[0..3]) through a uint8_t* alias of a uint32_t:
\* every byte of the word is substituted in place
SboxBytes(temp) == Word([i \in 1..4 |-> sbox(temp[i])])

\* K after one key-schedule iteration that produced the round key rki, and
\* the round keys so far with rki appended: st = <<K, roundKeys[0 .. i-1]>>
KeyShift(st, rki) == << << st[1][2], st[1][3], st[1][4], rki >>, Append(st[2], rki) >>

\* X[i+1], X[i+2], X[i+3] and the new word X[i+4] of a round
Shift(X, newX) == << X[2], X[3], X[4], newX >>

\* MK[i] ^ FK[i] for the four words of the key
KeyWords(key) == Word([i \in 1..4 |-> Xor32(Load32(key, i - 1), FK[i])])

(***************************************************************************)
(* SM4::TTable (sm4_ttable.cpp).                                           *)
(***************************************************************************)
\* the static tables and flag before any constructor has run
ZeroTable == [i \in Byte |-> ZeroWord]

\* T0[i] .. T3[i]: the linear transform of the S-box output moved to byte
\* 3 - k of the word (<< 24, << 16, << 8, no shift)
TTable_table(k) == [i \in Byte |-> linearTransform(Shl32(U32(sbox(i)), 24 - 8 * k))]

\* initializeTables(): tab is the record of the statics
\* [tablesInitialized, T0, T1, T2, T3]; the result is their value on return
TTable_initializeTables(tab) ==
  IF tab.tablesInitialized THEN tab
  ELSE [ tablesInitialized |-> TRUE,
         T0 |-> TTable_table(0), T1 |-> TTable_table(1),
         T2 |-> TTable_table(2), T3 |-> TTable_table(3) ]

\* TTable_feistelFunction with the tables T0 and T1 exchanged
TTable_feistelFunction_swapped(tab, input) ==
  Xor32(Xor32(Xor32(tab.T1[U8Shr(input, 24)], tab.T0[U8Shr(input, 16)]),
              tab.T2[U8Shr(input, 8)]), tab.T3[U8Shr(input, 0)])

TTable_feistelFunction(tab, input) ==
  Xor32(Xor32(Xor32(tab.T0[U8Shr(input, 24)], tab.T1[U8Shr(input, 16)]),
              tab.T2[U8Shr(input, 8)]), tab.T3[U8Shr(input, 0)])

\* one iteration of the key-schedule loop: st = <<K, roundKeys[0 .. i-1]>>
TTable_keyRound(st, i) ==
  KeyShift(st, Xor32(st[1][1],
    linearTransformPrime(
      SboxBytes(Xor32(Xor32(Xor32(st[1][2], st[1][3]), st[1][4]), CK[i + 1])))))

\* iterations lo .. hi-1 of for (i = 0; i < 32; i++), in order
RECURSIVE TTable_keyRounds(_, _, _)
TTable_keyRounds(st, lo, hi) ==
  IF hi <= lo THEN st
  ELSE IF hi = lo + 1 THEN TTable_keyRound(st, lo)
  ELSE LET s1 == TTable_keyRounds(st, lo, Mid(lo, hi))
       IN  Strict(s1, TTable_keyRounds(s1, Mid(lo, hi), hi))

\* keyExpansion(key): the 32 round keys
TTable_keyExpansion(key) == TTable_keyRounds(<< KeyWords(key), <<>> >>, 0, 32)[2]

TTable_setKey(key) == TTable_keyExpansion(key)

\* one round with round key roundKeys[i], shared by encrypt and decrypt
TTable_round(tab, roundKeys, X, i) ==
  Shift(X, Xor32(X[1], TTable_feistelFunction(tab,
                         Xor32(Xor32(Xor32(X[2], X[3]), X[4]), roundKeys[i + 1]))))

\* iterations lo .. hi-1 of for (i = 0; i < 32; i++) of encrypt, in order
RECURSIVE TTable_encRounds(_, _, _, _, _)
TTable_encRounds(tab, roundKeys, X, lo, hi) ==
  IF hi <= lo THEN X
  ELSE IF hi = lo + 1 THEN TTable_round(tab, roundKeys, X, lo)
  ELSE LET X1 == TTable_encRounds(tab, roundKeys, X, lo, Mid(lo, hi))
       IN  Strict(X1, TTable_encRounds(tab, roundKeys, X1, Mid(lo, hi), hi))

TTable_encrypt(tab, roundKeys, plaintext) ==
  StoreBlock(Reverse(TTable_encRounds(tab, roundKeys, LoadBlock(plaintext), 0, 32)))

\* iterations i = hi-1 down to lo of for (i = 31; i >= 0; i--) of decrypt
RECURSIVE TTable_decRounds(_, _, _, _, _)
TTable_decRounds(tab, roundKeys, X, lo, hi) ==
  IF hi <= lo THEN X
  ELSE IF hi = lo + 1 THEN TTable_round(tab, roundKeys, X, lo)
  ELSE LET X1 == TTable_decRounds(tab, roundKeys, X, Mid(lo, hi), hi)
       IN  Strict(X1, TTable_decRounds(tab, roundKeys, X1, lo, Mid(lo, hi)))

\* TTable_decrypt with the round keys taken in the order of encrypt
TTable_decrypt_ascending(tab, roundKeys, ciphertext) ==
  StoreBlock(Reverse(TTable_encRounds(tab, roundKeys, LoadBlock(ciphertext), 0, 32)))

TTable_decrypt(tab, roundKeys, ciphertext) ==
  StoreBlock(Reverse(TTable_decRounds(tab, roundKeys, LoadBlock(ciphertext), 0, 32)))

\* clear(): std::fill(roundKeys.begin(), roundKeys.end(), 0)
TTable_clear(roundKeys) == [i \in 1..32 |-> ZeroWord]

(***************************************************************************)
(* SM4::AESNI (sm4_aesni.cpp).                                             *)
(***************************************************************************)
\* AESNI_keyRound with the linear transform of the round function in place
\* of the one of the key schedule
AESNI_keyRound_L(st, i) ==
  KeyShift(st, Xor32(st[1][1],
    linearTransform(
      SboxBytes(Xor32(Xor32(Xor32(st[1][2], st[1][3]), st[1][4]), CK[i + 1])))))

\* one iteration of the key-schedule loop: st = <<K, roundKeys[0 .. i-1]>>
AESNI_keyRound(st, i) ==
  KeyShift(st, Xor32(st[1][1],
    linearTransformPrime(
      SboxBytes(Xor32(Xor32(Xor32(st[1][2], st[1][3]), st[1][4]), CK[i + 1])))))

\* iterations lo .. hi-1 of for (i = 0; i < 32; i++), in order
RECURSIVE AESNI_keyRounds(_, _, _)
AESNI_keyRounds(st, lo, hi) ==
  IF hi <= lo THEN st
  ELSE IF hi = lo + 1 THEN AESNI_keyRound(st, lo)
  ELSE LET s1 == AESNI_keyRounds(st, lo, Mid(lo, hi))
       IN  Strict(s1, AESNI_keyRounds(s1, Mid(lo, hi), hi))

\* keyExpansion(key): the 32 round keys
AESNI_keyExpansion(key) == AESNI_keyRounds(<< KeyWords(key), <<>> >>, 0, 32)[2]

AESNI_setKey(key) == AESNI_keyExpansion(key)

\* one round with round key roundKeys[i], shared by encrypt and decrypt
AESNI_round(roundKeys, X, i) ==
  Shift(X, Xor32(X[1], linearTransform(SboxBytes(
                         Xor32(Xor32(Xor32(X[2], X[3]), X[4]), roundKeys[i + 1])))))

\* iterations lo .. hi-1 of for (i = 0; i < 32; i++) of encrypt, in order
RECURSIVE AESNI_encRounds(_, _, _, _)
AESNI_encRounds(roundKeys, X, lo, hi) ==
  IF hi <= lo THEN X
  ELSE IF hi = lo + 1 THEN AESNI_round(roundKeys, X, lo)
  ELSE LET X1 == AESNI_encRounds(roundKeys, X, lo, Mid(lo, hi))
       IN  Strict(X1, AESNI_encRounds(roundKeys, X1, Mid(lo, hi), hi))

AESNI_encrypt(roundKeys, plaintext) ==
  StoreBlock(Reverse(AESNI_encRounds(roundKeys, LoadBlock(plaintext), 0, 32)))

\* iterations i = hi-1 down to lo of for (i = 31; i >= 0; i--) of decrypt
RECURSIVE AESNI_decRounds(_, _, _, _)
AESNI_decRounds(roundKeys, X, lo, hi) ==
  IF hi <= lo THEN X
  ELSE IF hi = lo + 1 THEN AESNI_round(roundKeys, X, lo)
  ELSE LET X1 == AESNI_decRounds(roundKeys, X, Mid(lo, hi), hi)
       IN  Strict(X1, AESNI_decRounds(roundKeys, X1, lo, Mid(lo, hi)))

AESNI_decrypt(roundKeys, ciphertext) ==
  StoreBlock(Reverse(AESNI_decRounds(roundKeys, LoadBlock(ciphertext), 0, 32)))

(***************************************************************************)
(* SM4::ModernISA (sm4_modern.cpp).                                        *)
(***************************************************************************)
\* the S-box on the four bytes of a word taken with & 0xFF and >> 8k,
\* reassembled as b0 | (b1 << 8) | (b2 << 16) | (b3 << 24)
ModernISA_sboxWord(input) ==
  Or32(Or32(Or32(U32(sbox(U8Shr(input, 0))), Shl32(U32(sbox(U8Shr(input, 8))), 8)),
            Shl32(U32(sbox(U8Shr(input, 16))), 16)),
       Shl32(U32(sbox(U8Shr(input, 24))), 24))

\* the linear transform written inline with << and >>
ModernISA_linear(sbox_result) ==
  Xor32(Xor32(Xor32(Xor32(sbox_result,
        Or32(Shl32(sbox_result, 2), Shr32(sbox_result, 30))),
        Or32(Shl32(sbox_result, 10), Shr32(sbox_result, 22))),
        Or32(Shl32(sbox_result, 18), Shr32(sbox_result, 14))),
        Or32(Shl32(sbox_result, 24), Shr32(sbox_result, 8)))

\* feistelFunctionAVX on the low lane, the only lane that is returned
ModernISA_feistelFunctionAVX(scalar_input) ==
  ModernISA_linear(ModernISA_sboxWord(scalar_input))

\* one iteration of the key-schedule loop: st = <<K, roundKeys[0 .. i-1]>>
ModernISA_keyRound(st, i) ==
  KeyShift(st, Xor32(st[1][1],
    linearTransformPrime(
      SboxBytes(Xor32(Xor32(Xor32(st[1][2], st[1][3]), st[1][4]), CK[i + 1])))))

\* iterations lo .. hi-1 of for (i = 0; i < 32; i++), in order
RECURSIVE ModernISA_keyRounds(_, _, _)
ModernISA_keyRounds(st, lo, hi) ==
  IF hi <= lo THEN st
  ELSE IF hi = lo + 1 THEN ModernISA_keyRound(st, lo)
  ELSE LET s1 == ModernISA_keyRounds(st, lo, Mid(lo, hi))
       IN  Strict(s1, ModernISA_keyRounds(s1, Mid(lo, hi), hi))

\* keyExpansion(key): the 32 round keys
ModernISA_keyExpansion(key) == ModernISA_keyRounds(<< KeyWords(key), <<>> >>, 0, 32)[2]

ModernISA_setKey(key) == ModernISA_keyExpansion(key)

\* the round function chosen by avxSupported
ModernISA_F(avxSupported, temp) ==
  IF avxSupported THEN ModernISA_feistelFunctionAVX(temp)
  ELSE linearTransform(SboxBytes(temp))

\* one round with round key roundKeys[i], shared by encrypt and decrypt
ModernISA_round(avxSupported, roundKeys, X, i) ==
  Shift(X, Xor32(X[1], ModernISA_F(avxSupported,
                         Xor32(Xor32(Xor32(X[2], X[3]), X[4]), roundKeys[i + 1]))))

\* iterations lo .. hi-1 of for (i = 0; i < 32; i++) of encrypt, in order
RECURSIVE ModernISA_encRounds(_, _, _, _, _)
ModernISA_encRounds(avxSupported, roundKeys, X, lo, hi) ==
  IF hi <= lo THEN X
  ELSE IF hi = lo + 1 THEN ModernISA_round(avxSupported, roundKeys, X, lo)
  ELSE LET X1 == ModernISA_encRounds(avxSupported, roundKeys, X, lo, Mid(lo, hi))
       IN  Strict(X1, ModernISA_encRounds(avxSupported, roundKeys, X1, Mid(lo, hi), hi))

ModernISA_encrypt(avxSupported, roundKeys, plaintext) ==
  StoreBlock(Reverse(
    ModernISA_encRounds(avxSupported, roundKeys, LoadBlock(plaintext), 0, 32)))

\* iterations i = hi-1 down to lo of for (i = 31; i >= 0; i--) of decrypt
RECURSIVE ModernISA_decRounds(_, _, _, _, _)
ModernISA_decRounds(avxSupported, roundKeys, X, lo, hi) ==
  IF hi <= lo THEN X
  ELSE IF hi = lo + 1 THEN ModernISA_round(avxSupported, roundKeys, X, lo)
  ELSE LET X1 == ModernISA_decRounds(avxSupported, roundKeys, X, Mid(lo, hi), hi)
       IN  Strict(X1, ModernISA_decRounds(avxSupported, roundKeys, X1, lo, Mid(lo, hi)))

ModernISA_decrypt(avxSupported, roundKeys, ciphertext) ==
  StoreBlock(Reverse(
    ModernISA_decRounds(avxSupported, roundKeys, LoadBlock(ciphertext), 0, 32)))

\* the F function written inline in encryptBlocks / decryptBlocks
ModernISA_batchF(temp) == ModernISA_linear(ModernISA_sboxWord(temp))

\* block number n (from 0) of a buffer of 16-byte blocks
BlockAt(buf, n) == SubSeq(buf, 16 * n + 1, 16 * n + 16)

\* buf with the 16 bytes of block number n overwritten by blk
PutBlock(buf, n, blk) ==
  [j \in 1..Len(buf) |-> IF j > 16 * n /\ j <= 16 * n + 16 THEN blk[j - 16 * n]
                         ELSE buf[j]]

\* word i of block number block after one round of the 4-block group: X is
\* the 16-word array X[block * 4 + i], advanced with roundKeys[round]
ModernISA_groupWord(roundKeys, X, round, block, i) ==
  IF i < 3 THEN X[4 * block + i + 2]
  ELSE Xor32(X[4 * block + 1],
             ModernISA_batchF(Xor32(Xor32(Xor32(X[4 * block + 2], X[4 * block + 3]),
                                          X[4 * block + 4]), roundKeys[round + 1])))

\* one round of the 4-block group
ModernISA_groupRound(roundKeys, X, round) ==
  [n \in 1..16 |-> ModernISA_groupWord(roundKeys, X, round, (n - 1) \div 4, (n - 1) % 4)]

\* rounds lo .. hi-1 (ascending) of the 4-block group
RECURSIVE ModernISA_groupEncRounds(_, _, _, _)
ModernISA_groupEncRounds(roundKeys, X, lo, hi) ==
  IF hi <= lo THEN X
  ELSE IF hi = lo + 1 THEN ModernISA_groupRound(roundKeys, X, lo)
  ELSE LET X1 == ModernISA_groupEncRounds(roundKeys, X, lo, Mid(lo, hi))
       IN  Strict(X1, ModernISA_groupEncRounds(roundKeys, X1, Mid(lo, hi), hi))

\* rounds hi-1 down to lo (descending) of the 4-block group
RECURSIVE ModernISA_groupDecRounds(_, _, _, _)
ModernISA_groupDecRounds(roundKeys, X, lo, hi) ==
  IF hi <= lo THEN X
  ELSE IF hi = lo + 1 THEN ModernISA_groupRound(roundKeys, X, lo)
  ELSE LET X1 == ModernISA_groupDecRounds(roundKeys, X, Mid(lo, hi), hi)
       IN  Strict(X1, ModernISA_groupDecRounds(roundKeys, X1, lo, Mid(lo, hi)))

\* the 16 words X[block * 4 + i] loaded from the four blocks b .. b+3 of src
LoadGroup(src, b) == [n \in 1..16 |-> Load32(src, 4 * b + n - 1)]

\* byte k (0 .. 63) of the four result blocks of group X: word i of a block
\* is X[block * 4 + 3 - i], stored big-endian
GroupByte(X, k) ==
  U8Shr(X[4 * (k \div 16) + 4 - ((k % 16) \div 4)], 24 - 8 * (k % 4))

\* dst after the four result blocks of group X are stored at blocks b .. b+3
StoreGroup(dst, b, X) ==
  [j \in 1..Len(dst) |-> IF j > 16 * b /\ j <= 16 * b + 64
                         THEN GroupByte(X, j - 16 * b - 1)
                         ELSE dst[j]]

\* for (b = 0; b < (blockCount / 4) * 4; b += 4) of encryptBlocks, from b
RECURSIVE ModernISA_encGroups(_, _, _, _, _)
ModernISA_encGroups(roundKeys, src, dst, blockCount, b) ==
  IF b >= (blockCount \div 4) * 4 THEN dst
  ELSE ModernISA_encGroups(roundKeys, src,
         StoreGroup(dst, b, ModernISA_groupEncRounds(roundKeys, LoadGroup(src, b), 0, 32)),
         blockCount, b + 4)

\* for (i = from; i < to; i++) encrypt(src + i * 16, dst + i * 16)
RECURSIVE ModernISA_encEach(_, _, _, _, _, _)
ModernISA_encEach(avxSupported, roundKeys, src, dst, from, to) ==
  IF from >= to THEN dst
  ELSE ModernISA_encEach(avxSupported, roundKeys, src,
         PutBlock(dst, from, ModernISA_encrypt(avxSupported, roundKeys, BlockAt(src, from))),
         from + 1, to)

\* ModernISA_encryptBlocks without the loop over the blocks that are left
\* after the groups of four
ModernISA_encryptBlocks_groupsOnly(avxSupported, roundKeys, plaintext, ciphertext, blockCount) ==
  IF avxSupported /\ blockCount >= 4
  THEN ModernISA_encGroups(roundKeys, plaintext, ciphertext, blockCount, 0)
  ELSE ModernISA_encEach(avxSupported, roundKeys, plaintext, ciphertext, 0, blockCount)

\* encryptBlocks(plaintext, ciphertext, blockCount): the ciphertext buffer
\* on return
ModernISA_encryptBlocks(avxSupported, roundKeys, plaintext, ciphertext, blockCount) ==
  IF avxSupported /\ blockCount >= 4
  THEN ModernISA_encEach(avxSupported, roundKeys, plaintext,
         ModernISA_encGroups(roundKeys, plaintext, ciphertext, blockCount, 0),
         blockCount - (blockCount % 4), blockCount)
  ELSE ModernISA_encEach(avxSupported, roundKeys, plaintext, ciphertext, 0, blockCount)

\* for (b = 0; b < (blockCount / 4) * 4; b += 4) of decryptBlocks, from b
RECURSIVE ModernISA_decGroups(_, _, _, _, _)
ModernISA_decGroups(roundKeys, src, dst, blockCount, b) ==
  IF b >= (blockCount \div 4) * 4 THEN dst
  ELSE ModernISA_decGroups(roundKeys, src,
         StoreGroup(dst, b, ModernISA_groupDecRounds(roundKeys, LoadGroup(src, b), 0, 32)),
         blockCount, b + 4)

\* for (i = from; i < to; i++) decrypt(src + i * 16, dst + i * 16)
RECURSIVE ModernISA_decEach(_, _, _, _, _, _)
ModernISA_decEach(avxSupported, roundKeys, src, dst, from, to) ==
  IF from >= to THEN dst
  ELSE ModernISA_decEach(avxSupported, roundKeys, src,
         PutBlock(dst, from, ModernISA_decrypt(avxSupported, roundKeys, BlockAt(src, from))),
         from + 1, to)

\* decryptBlocks(ciphertext, plaintext, blockCount): the plaintext buffer
\* on return
ModernISA_decryptBlocks(avxSupported, roundKeys, ciphertext, plaintext, blockCount) ==
  IF avxSupported /\ blockCount >= 4
  THEN ModernISA_decEach(avxSupported, roundKeys, ciphertext,
         ModernISA_decGroups(roundKeys, ciphertext, plaintext, blockCount, 0),
         blockCount - (blockCount % 4), blockCount)
  ELSE ModernISA_decEach(avxSupported, roundKeys, ciphertext, plaintext, 0, blockCount)

(***************************************************************************)
(* SM4::Basic, the reference backend (declared in sm4.h): the round        *)
(* function is the S-box on each byte followed by linearTransform.         *)
(***************************************************************************)
Basic_feistelFunction(input) == linearTransform(SboxBytes(input))

\* one round with round key roundKeys[i]
Basic_round(roundKeys, X, i) ==
  Shift(X, Xor32(X[1], Basic_feistelFunction(
                         Xor32(Xor32(Xor32(X[2], X[3]), X[4]), roundKeys[i + 1]))))

\* rounds lo .. hi-1, in order
RECURSIVE Basic_encRounds(_, _, _, _)
Basic_encRounds(roundKeys, X, lo, hi) ==
  IF hi <= lo THEN X
  ELSE IF hi = lo + 1 THEN Basic_round(roundKeys, X, lo)
  ELSE LET X1 == Basic_encRounds(roundKeys, X, lo, Mid(lo, hi))
       IN  Strict(X1, Basic_encRounds(roundKeys, X1, Mid(lo, hi), hi))

Basic_encrypt(roundKeys, plaintext) ==
  StoreBlock(Reverse(Basic_encRounds(roundKeys, LoadBlock(plaintext), 0, 32)))

(***************************************************************************)
(* SM4_GCM (sm4_gcm.cpp).  An SM4_GCM object is the record                 *)
(* [sm4, H, iv, aad]: sm4 the round keys of its TTable member, H the two   *)
(* uint64_t of the subkey, iv and aad the two vectors.                     *)
(***************************************************************************)
\* the sixteen bytes f[1] .. f[16] as a tuple
Block(f) == << f[1], f[2], f[3], f[4], f[5], f[6], f[7], f[8],
               f[9], f[10], f[11], f[12], f[13], f[14], f[15], f[16] >>

\* uint8_t zero_block[16] = {0}
ZeroBlock == << 0, 0, 0, 0, 0, 0, 0, 0, 0, 0, 0, 0, 0, 0, 0, 0 >>

\* a[j] ^ b[j] for j = 0 .. 15
Xor16(a, b) == Block([j \in 1..16 |-> XorTab[a[j]][b[j]]])

ZeroWord64 == << 0, 0, 0, 0, 0, 0, 0, 0 >>

\* (w << 8) | b on a uint64_t: the top digit is lost, b enters at the bottom
ShiftIn(w, b) == << w[2], w[3], w[4], w[5], w[6], w[7], w[8], OrTab[0][b] >>

\* for (i = 0; i < 8; i++) w = (w << 8) | h_bytes[off + i], from iteration i
RECURSIVE Pack64(_, _, _, _)
Pack64(w, h_bytes, off, i) ==
  IF i >= 8 THEN w
  ELSE Pack64(ShiftIn(w, h_bytes[off + i + 1]), h_bytes, off, i + 1)

\* the two words H[0], H[1] packed from E_K(0^128)
GCM_packH(h_bytes) ==
  << Pack64(ZeroWord64, h_bytes, 0, 0), Pack64(ZeroWord64, h_bytes, 8, 0) >>

\* generateSubkey(): H on return
GCM_generateSubkey(tab, roundKeys) ==
  GCM_packH(TTable_encrypt(tab, roundKeys, ZeroBlock))

\* GCM_withSubkey without the new derivation of H
GCM_withSubkey_staleH(tab, this, roundKeys) == [this EXCEPT !.sm4 = roundKeys]

\* the object once sm4.setKey has stored roundKeys: generateSubkey() runs
\* under them
GCM_withSubkey(tab, this, roundKeys) ==
  [this EXCEPT !.sm4 = roundKeys, !.H = GCM_generateSubkey(tab, roundKeys)]

\* setKey that also drops the stored IV
GCM_setKey_resetIV(tab, this, key) ==
  [GCM_withSubkey(tab, this, TTable_setKey(key)) EXCEPT !.iv = << >>]

\* setKey(key): the object on return
GCM_setKey(tab, this, key) == GCM_withSubkey(tab, this, TTable_setKey(key))

\* GCM_setIV rejecting an IV of length 0: the stored IV stays
GCM_setIV_rejectEmpty(this, iv_data, ivLen) ==
  IF ivLen = 0 THEN this ELSE [this EXCEPT !.iv = SubSeq(iv_data, 1, ivLen)]

\* setIV(iv_data, ivLen): the object on return (clear, resize, copy)
GCM_setIV(this, iv_data, ivLen) == [this EXCEPT !.iv = SubSeq(iv_data, 1, ivLen)]

\* GCM_setAAD appending to the stored AAD
GCM_setAAD_append(this, aad_data, aadLen) ==
  [this EXCEPT !.aad = this.aad \o SubSeq(aad_data, 1, aadLen)]

\* setAAD(aad_data, aadLen): the object on return (clear, resize, copy)
GCM_setAAD(this, aad_data, aadLen) == [this EXCEPT !.aad = SubSeq(aad_data, 1, aadLen)]

\* std::fill(v.begin(), v.end(), 0): every element 0, the size as it was
ZeroFill(v) == [j \in 1..Len(v) |-> 0]

\* GCM_clear leaving the IV and the AAD as they are
GCM_clear_keysOnly(this) ==
  [this EXCEPT !.sm4 = TTable_clear(this.sm4), !.H = << ZeroWord64, ZeroWord64 >>]

\* clear() that empties iv and aad instead of filling them with zeros
GCM_clear_emptied(this) ==
  [ sm4 |-> TTable_clear(this.sm4), H |-> << ZeroWord64, ZeroWord64 >>,
    iv |-> << >>, aad |-> << >> ]

\* clear(): the object on return
GCM_clear(this) ==
  [ sm4 |-> TTable_clear(this.sm4), H |-> << ZeroWord64, ZeroWord64 >>,
    iv |-> ZeroFill(this.iv), aad |-> ZeroFill(this.aad) ]

\* static_cast<uint8_t>(w >> n) of a uint64_t, n a multiple of 8
U8Shr64(w, n) == w[8 - (n \div 8)]

\* h_bytes of ghash: H[0] and H[1] unpacked big-endian
GCM_hBytes(H) ==
  Block([j \in 1..16 |-> IF j <= 8 THEN U8Shr64(H[1], 56 - 8 * (j - 1))
                         ELSE U8Shr64(H[2], 56 - 8 * (j - 9))])

\* the bit tested least significant bit first: 1 << (i % 8)
GCM_bit_lsbFirst(x, i) == (x[(i \div 8) + 1] \div Pow2(i % 8)) % 2

\* x[byte_idx] & (1 << bit_idx) with byte_idx = i / 8, bit_idx = 7 - i % 8
GCM_bit(x, i) == (x[(i \div 8) + 1] \div Pow2(7 - (i % 8))) % 2

\* v = v >> 1 byte by byte: v[j] = (v[j] >> 1) | (carry << 7), the carry
\* being the low bit of the byte before
GCM_shiftRight(v) ==
  Block([j \in 1..16 |-> OrTab[v[j] \div 2][(IF j = 1 THEN 0 ELSE v[j - 1] % 2) * 128]])

\* if (carry) v[0] ^= 0xE1
GCM_reduce(v, carry) == IF carry = 1 THEN [v EXCEPT ![1] = XorTab[v[1]][225]] ELSE v

\* one iteration of the loop of gfmul on st = <<z, v>>
GCM_gfmulStep(x, st, i) ==
  << IF GCM_bit(x, i) = 1 THEN Xor16(st[1], st[2]) ELSE st[1],
     GCM_reduce(GCM_shiftRight(st[2]), st[2][16] % 2) >>

\* iterations lo .. hi-1 of for (i = 0; i < 128; i++), in order
RECURSIVE GCM_gfmulLoop(_, _, _, _)
GCM_gfmulLoop(x, st, lo, hi) ==
  IF hi <= lo THEN st
  ELSE IF hi = lo + 1 THEN GCM_gfmulStep(x, st, lo)
  ELSE LET s1 == GCM_gfmulLoop(x, st, lo, Mid(lo, hi))
       IN  Strict(s1, GCM_gfmulLoop(x, s1, Mid(lo, hi), hi))

\* gfmul(x, y, result): the 16 bytes of result
GCM_gfmul(x, y) == GCM_gfmulLoop(x, << ZeroBlock, y >>, 0, 128)[1]

\* the incomplete block copied to the end of padded_block, the zeros in front
GCM_paddedBlock_left(data, i) ==
  [j \in 1..16 |->
     IF 16 * i + 16 <= Len(data) THEN data[16 * i + j]
     ELSE IF j > 16 * i + 16 - Len(data) THEN data[j + Len(data) - 16] ELSE 0]

\* block number i of data; the last, incomplete block is padded with zeros
GCM_paddedBlock(data, i) ==
  [j \in 1..16 |-> IF 16 * i + j <= Len(data) THEN data[16 * i + j] ELSE 0]

\* the full blocks of data, then the padded rest if there is one: y after
\* the blocks i .. n-1
RECURSIVE GCM_ghashLoop(_, _, _, _, _)
GCM_ghashLoop(h_bytes, data, y, i, n) ==
  IF i >= n THEN y
  ELSE Strict(y, GCM_ghashLoop(h_bytes, data,
                   GCM_gfmul(Xor16(y, GCM_paddedBlock(data, i)), h_bytes), i + 1, n))

\* ghash(data, len, hash): the 16 bytes of hash
GCM_ghash(H, data) ==
  Strict(data, GCM_ghashLoop(GCM_hBytes(H), data, ZeroBlock, 0,
                 (Len(data) \div 16) + (IF Len(data) % 16 > 0 THEN 1 ELSE 0)))

\* low++ on a uint32_t
Inc32(w) ==
  IF w[4] < 255 THEN << w[1], w[2], w[3], w[4] + 1 >>
  ELSE IF w[3] < 255 THEN << w[1], w[2], w[3] + 1, 0 >>
  ELSE IF w[2] < 255 THEN << w[1], w[2] + 1, 0, 0 >>
  ELSE << (w[1] + 1) % 256, 0, 0, 0 >>

\* counter with its bytes 12 .. 15 set to low, big-endian
GCM_storeLow(counter, low) ==
  Block([j \in 1..16 |-> IF j <= 12 THEN counter[j] ELSE U8Shr(low, 24 - 8 * (j - 13))])

\* the increment carried on into byte 11 when the low word wraps
GCM_incrementCounter_carry(counter) ==
  IF counter[13] = 255 /\ counter[14] = 255 /\ counter[15] = 255 /\ counter[16] = 255
  THEN [GCM_storeLow(counter, Inc32(Load32(counter, 3))) EXCEPT ![12] = (@ + 1) % 256]
  ELSE GCM_storeLow(counter, Inc32(Load32(counter, 3)))

\* incrementCounter(counter): counter on return
GCM_incrementCounter(counter) == GCM_storeLow(counter, Inc32(Load32(counter, 3)))

\* J0 taken from ghash whatever the length of the IV
GCM_j0_alwaysHash(H, iv) == GCM_ghash(H, iv)

\* j0: the IV followed by 00 00 00 01 when it has 12 bytes, its GHASH if not
GCM_j0(H, iv) == IF Len(iv) = 12 THEN Block(iv \o << 0, 0, 0, 1 >>) ELSE GCM_ghash(H, iv)

\* dst after dst[16i + j] = src[16i + j] ^ keystream[j] for the bytes of
\* block i that lie below len
GCM_xorBlock(src, dst, keystream, len, i) ==
  [k \in 1..Len(dst) |-> IF k > 16 * i /\ k <= 16 * i + 16 /\ k <= len
                         THEN XorTab[src[k]][keystream[k - 16 * i]]
                         ELSE dst[k]]

\* the counter-mode loops over the full blocks and the remaining bytes,
\* from block i: every block increments the counter, then encrypts it
RECURSIVE GCM_ctrLoop(_, _, _, _, _, _, _)
RECURSIVE GCM_ctrBlock(_, _, _, _, _, _, _)
GCM_ctrBlock(tab, roundKeys, counter, src, dst, len, i) ==
  Strict(dst, GCM_ctrLoop(tab, roundKeys, counter, src,
                GCM_xorBlock(src, dst, TTable_encrypt(tab, roundKeys, counter), len, i),
                len, i + 1))

GCM_ctrLoop(tab, roundKeys, counter, src, dst, len, i) ==
  IF 16 * i >= len THEN dst
  ELSE GCM_ctrBlock(tab, roundKeys, GCM_incrementCounter(counter), src, dst, len, i)

\* the eight bytes of the uint64_t 8 * n, big-endian (n < 2^28 here, so the
\* four high bytes are 0)
LenBits(n) ==
  << 0, 0, 0, 0, ((8 * n) \div 16777216) % 256, ((8 * n) \div 65536) % 256,
     ((8 * n) \div 256) % 256, (8 * n) % 256 >>

\* auth_data with the two length fields in the other order
GCM_authData_lensSwapped(aad, ciphertext, len) ==
  aad \o [k \in 1..len |-> ciphertext[k]] \o LenBits(len) \o LenBits(Len(aad))

\* auth_data: the AAD, the len bytes of ciphertext, the two bit lengths
GCM_authData(aad, ciphertext, len) ==
  aad \o [k \in 1..len |-> ciphertext[k]] \o LenBits(Len(aad)) \o LenBits(len)

\* std::min(tagLen, size_t(16))
GCM_actualTagLen(tagLen) == IF tagLen < 16 THEN tagLen ELSE 16

\* GCM_putTag without the exclusive or with tag_mask
GCM_putTag_unmasked(tag, auth_tag, tag_mask, actual_tag_len) ==
  [k \in 1..Len(tag) |-> IF k <= actual_tag_len THEN auth_tag[k] ELSE tag[k]]

\* tag after tag[i] = auth_tag[i] ^ tag_mask[i] for i < actual_tag_len
GCM_putTag(tag, auth_tag, tag_mask, actual_tag_len) ==
  [k \in 1..Len(tag) |-> IF k <= actual_tag_len THEN XorTab[auth_tag[k]][tag_mask[k]]
                         ELSE tag[k]]

\* encrypt from the counter-mode output on: the tag of AAD and ciphertext
GCM_encryptTag(H, aad, tag_mask, ciphertext, ptLen, tag, tagLen) ==
  Strict(<< tag_mask, ciphertext >>,
    [ ok |-> TRUE, ciphertext |-> ciphertext,
      tag |-> GCM_putTag(tag, GCM_ghash(H, GCM_authData(aad, ciphertext, ptLen)),
                         tag_mask, GCM_actualTagLen(tagLen)) ])

\* encrypt with the counter moved on by one when there is associated data
GCM_encryptFrom_aadCounter(tab, roundKeys, H, aad, j0, plaintext, ptLen, ciphertext, tag, tagLen) ==
  GCM_encryptTag(H, aad, TTable_encrypt(tab, roundKeys, j0),
    GCM_ctrLoop(tab, roundKeys, IF Len(aad) > 0 THEN GCM_incrementCounter(j0) ELSE j0,
                plaintext, ciphertext, ptLen, 0),
    ptLen, tag, tagLen)

\* encrypt once j0 is known
GCM_encryptFrom(tab, roundKeys, H, aad, j0, plaintext, ptLen, ciphertext, tag, tagLen) ==
  Strict(j0, GCM_encryptTag(H, aad, TTable_encrypt(tab, roundKeys, j0),
               GCM_ctrLoop(tab, roundKeys, j0, plaintext, ciphertext, ptLen, 0),
               ptLen, tag, tagLen))

\* GCM_encrypt without the test for an empty IV
GCM_encrypt_unguarded(tab, this, plaintext, ptLen, ciphertext, tag, tagLen) ==
  GCM_encryptFrom(tab, this.sm4, this.H, this.aad, GCM_j0(this.H, this.iv),
                  plaintext, ptLen, ciphertext, tag, tagLen)

\* encrypt(plaintext, ptLen, ciphertext, tag, tagLen): the value returned
\* and the two output buffers on return
GCM_encrypt(tab, this, plaintext, ptLen, ciphertext, tag, tagLen) ==
  IF Len(this.iv) = 0 THEN [ ok |-> FALSE, ciphertext |-> ciphertext, tag |-> tag ]
  ELSE GCM_encryptFrom(tab, this.sm4, this.H, this.aad, GCM_j0(this.H, this.iv),
                       plaintext, ptLen, ciphertext, tag, tagLen)

\* GCM_tagMatches comparing the first byte only
GCM_tagMatches_firstByte(expected_tag, tag, actual_tag_len) ==
  expected_tag = expected_tag /\ (actual_tag_len >= 1 => expected_tag[1] = tag[1])

\* the comparison over all 16 bytes whatever the tag length
GCM_tagMatches_all16(expected_tag, tag, actual_tag_len) ==
  expected_tag = expected_tag /\ \A k \in 1..16 : expected_tag[k] = tag[k]

\* the loop that compares expected_tag with tag over actual_tag_len bytes
GCM_tagMatches(expected_tag, tag, actual_tag_len) ==
  expected_tag = expected_tag /\ \A k \in 1..actual_tag_len : expected_tag[k] = tag[k]

\* GCM_decryptFrom with the counter mode run before the verification
GCM_decryptFrom_early(tab, roundKeys, H, aad, j0, ciphertext, ctLen, tag, tagLen, plaintext) ==
  [ ok |-> j0 = j0 /\ GCM_tagMatches(Xor16(GCM_ghash(H, GCM_authData(aad, ciphertext, ctLen)),
                                 TTable_encrypt(tab, roundKeys, j0)),
                           tag, GCM_actualTagLen(tagLen)),
    plaintext |-> GCM_ctrLoop(tab, roundKeys, j0, ciphertext, plaintext, ctLen, 0) ]

\* decrypt once j0 is known: verification, then the counter mode
GCM_decryptFrom(tab, roundKeys, H, aad, j0, ciphertext, ctLen, tag, tagLen, plaintext) ==
  IF j0 = j0 /\ GCM_tagMatches(Xor16(GCM_ghash(H, GCM_authData(aad, ciphertext, ctLen)),
                          TTable_encrypt(tab, roundKeys, j0)),
                    tag, GCM_actualTagLen(tagLen))
  THEN [ ok |-> TRUE,
         plaintext |-> GCM_ctrLoop(tab, roundKeys, j0, ciphertext, plaintext, ctLen, 0) ]
  ELSE [ ok |-> FALSE, plaintext |-> plaintext ]

\* decrypt(ciphertext, ctLen, tag, tagLen, plaintext): the value returned
\* and the output buffer on return
GCM_decrypt(tab, this, ciphertext, ctLen, tag, tagLen, plaintext) ==
  IF Len(this.iv) = 0 THEN [ ok |-> FALSE, plaintext |-> plaintext ]
  ELSE GCM_decryptFrom(tab, this.sm4, this.H, this.aad, GCM_j0(this.H, this.iv),
                       ciphertext, ctLen, tag, tagLen, plaintext)

(***************************************************************************)
(* Bounds of the model.                                                    *)
(***************************************************************************)
\* number of distinct keys the callers use
NKeys == 2

\* number of distinct single blocks the cipher test uses
NBlocks == 2

\* largest blockCount given to encryptBlocks / decryptBlocks
MaxBlocks == 9

(***************************************************************************)
(* The callers' data (test_sm4.cpp).                                       *)
(***************************************************************************)
test_key == << 1, 35, 69, 103, 137, 171, 205, 239, 254, 220, 186, 152, 118, 84, 50, 16 >>

test_plaintext == << 1, 35, 69, 103, 137, 171, 205, 239, 254, 220, 186, 152, 118, 84, 50, 16 >>

expected_ciphertext == << 104, 30, 223, 52, 210, 6, 150, 94, 134, 179, 233, 79, 83, 110, 66, 70 >>

\* key number n: the test key, the all-zero key, then patterned keys
KeyOf(n) == IF n = 1 THEN test_key
            ELSE [j \in 1..16 |-> ((n - 2) * 85 + (j - 1) * (n - 2) * 17) % 256]

\* block number n: the test plaintext, the all-ones block, then patterned blocks
BlockOf(n) == IF n = 1 THEN test_plaintext
              ELSE [j \in 1..16 |-> ((n - 1) * 255 + (j - 1) * (n - 2) * 29) % 256]

\* the batch input: count blocks, block i being blk with i added to its last byte
BatchInput(blk, count) ==
  [j \in 1..(16 * count) |->
     IF j % 16 = 0 THEN (blk[16] + ((j - 1) \div 16)) % 256
     ELSE blk[j % 16]]

\* an output buffer of n bytes the callee has not written yet
Unwritten(n) == [j \in 1..n |-> 170]

\* an output buffer of count blocks the callee has not written yet
FreshBuffer(count) == Unwritten(16 * count)

\* uint8_t ciphertext[32], decrypted[32] of testSM4GCM
BufLen == 32

\* the caller's tag buffer: uint8_t tag[16] of testSM4GCM, and four bytes
\* more for a caller that asks for a tag of 20 bytes
TagBufLen == 20

\* uint8_t iv[12] of testSM4GCM, and a 5-byte IV
IV12 == << 0, 1, 2, 3, 4, 5, 6, 7, 8, 9, 10, 11 >>

IV5 == << 202, 254, 186, 190, 1 >>

\* an IV of one block whose ghash under the key test_key ends in FF FF FF FF,
\* so that the first increment of the counter wraps
IV16 == << 228, 66, 28, 50, 126, 151, 255, 158, 6, 227, 147, 91, 186, 136, 214, 125 >>

\* associated data that ends inside a block
AAD5 == << 104, 101, 97, 100, 1 >>

\* "Hello, SM4-GCM!" continued to 32 bytes; the plaintext of length n is its
\* first n bytes
Message == << 72, 101, 108, 108, 111, 44, 32, 83, 77, 52, 45, 71, 67, 77, 33, 32,
              97, 110, 100, 32, 115, 111, 109, 101, 32, 109, 111, 114, 101, 46, 46, 46 >>

PlaintextOf(n) == SubSeq(Message, 1, n)

\* buf with bit number bit of its byte number byte (from 1) flipped
FlipBit(buf, byte, bit) == [buf EXCEPT ![byte] = XorTab[buf[byte]][Pow2(bit)]]

\* what an SM4_GCM object holds after SM4_GCM() = default: sm4.roundKeys and
\* H are not initialised (any value; two are drawn), iv and aad are empty
Indeterminate(u) ==
  [ sm4 |-> [i \in 1..32 |-> IF u = 1 THEN ZeroWord ELSE << i, 2 * i, 3 * i, 4 * i >>],
    H   |-> IF u = 1 THEN << ZeroWord64, ZeroWord64 >>
            ELSE << << 222, 173, 190, 239, 1, 2, 3, 4 >>, << 5, 6, 7, 8, 9, 10, 11, 12 >> >>,
    iv |-> << >>, aad |-> << >> ]

VARIABLES
  tab,               \* TTable's statics [tablesInitialized, T0, T1, T2, T3]
  avxSupported,      \* ModernISA::avxSupported
  roundKeys,         \* roundKeys of the TTable, AESNI and ModernISA objects
  key,               \* the key buffer of the cipher test
  plaintext,         \* its plaintext block
  ciphertext,        \* its ciphertext buffer, per backend
  decrypted,         \* its decrypted buffer, per backend
  phase,             \* per backend: the last call made on the object
  blockCount,        \* blockCount of the batch calls
  batch_plaintext,   \* input of encryptBlocks
  batch_ciphertext,  \* output of encryptBlocks, one block longer than needed
  batch_decrypted,   \* output of decryptBlocks, one block longer than needed
  batchPhase,        \* the last batch call made
  gcm,               \* the SM4_GCM object [sm4, H, iv, aad]
  gcm_plaintext,     \* the plaintext given to gcm.encrypt
  gcm_tagLen,        \* the tagLen given to gcm.encrypt and gcm.decrypt
  gcm_out,           \* the caller's [ok, ciphertext, tag, decrypted]: the value
                     \* last returned by encrypt / decrypt and the three buffers
  gcm_call,          \* the last call made on the SM4_GCM object
  gcm_arg,           \* the buffer given to the last setKey / setIV / setAAD
  tampered,          \* what was altered between encrypt and decrypt
  ivUses,            \* "unset" until the first setIV, then how often encrypt /
                     \* decrypt ran since the last setIV: "unused", "once", "again"
  fn_call,           \* the private function of SM4_GCM called on its own, if any
  gf_x,              \* the argument x of gfmul
  gf_y,              \* the argument y of gfmul; the 16 bytes of H for ghash
  gh_data,           \* the argument data of ghash
  fn_result,         \* the 16 bytes the function returned
  pc,                \* per thread: where it is in TTable::TTable()
  fill_i,            \* per thread: the loop variable i of initializeTables
  entered,           \* the threads that went past the test of initializeTables
  flagStored         \* per thread: its store to tablesInitialized is visible

cipherVars == << avxSupported, roundKeys, key, plaintext, ciphertext, decrypted,
                 phase, blockCount, batch_plaintext, batch_ciphertext,
                 batch_decrypted, batchPhase >>

gcmVars == << gcm, gcm_plaintext, gcm_tagLen, gcm_out, gcm_call, gcm_arg, tampered,
              ivUses >>

mathVars == << fn_call, gf_x, gf_y, gh_data, fn_result >>

threadVars == << pc, fill_i, entered, flagStored >>

vars == << tab, cipherVars, gcmVars, mathVars, threadVars >>

Backends == << "TTable", "AESNI", "ModernISA" >>

BackendSet == {"TTable", "AESNI", "ModernISA"}

\* the statics of TTable before any constructor has run
StaticTables == [ tablesInitialized |-> FALSE, T0 |-> ZeroTable, T1 |-> ZeroTable,
                  T2 |-> ZeroTable, T3 |-> ZeroTable ]

\* the caller's buffers before a message is processed
NoOutput == [ ok |-> FALSE, ciphertext |-> Unwritten(BufLen), tag |-> Unwritten(TagBufLen),
              decrypted |-> Unwritten(BufLen) ]

\* the cipher test has not run: its objects and buffers as constructed
CipherIdle ==
  /\ avxSupported = FALSE
  /\ roundKeys = [b \in BackendSet |-> << >>]
  /\ key = test_key
  /\ plaintext = test_plaintext
  /\ ciphertext = [b \in BackendSet |-> FreshBuffer(1)]
  /\ decrypted = [b \in BackendSet |-> FreshBuffer(1)]
  /\ phase = [b \in BackendSet |-> "new"]
  /\ blockCount = 0
  /\ batch_plaintext = << >>
  /\ batch_ciphertext = FreshBuffer(MaxBlocks + 1)
  /\ batch_decrypted = FreshBuffer(MaxBlocks + 1)
  /\ batchPhase = "none"

\* no SM4_GCM object is in use
GcmIdle ==
  /\ gcm = Indeterminate(1)
  /\ gcm_plaintext = << >>
  /\ gcm_tagLen = 16
  /\ gcm_out = NoOutput
  /\ gcm_call = "new"
  /\ gcm_arg = << >>
  /\ tampered = "none"
  /\ ivUses = "unset"

\* no private function of SM4_GCM is called on its own
MathIdle ==
  /\ fn_call = "none"
  /\ gf_x = << >>
  /\ gf_y = << >>
  /\ gh_data = << >>
  /\ fn_result = << >>

\* no further thread constructs a TTable
ThreadIdle ==
  /\ pc = << >>
  /\ fill_i = << >>
  /\ entered = {}
  /\ flagStored = << >>

(***************************************************************************)
(* The cipher test: setKey, encrypt, decrypt on one object of each         *)
(* backend, then encryptBlocks / decryptBlocks on the ModernISA object.    *)
(***************************************************************************)
\* b.setKey(k): the round keys of object b on return
Cipher_setKey(b, k) ==
  CASE b = "TTable"    -> TTable_setKey(k)
    [] b = "AESNI"     -> AESNI_setKey(k)
    [] b = "ModernISA" -> ModernISA_setKey(k)

\* b.encrypt(blk, out): the 16 bytes written to out
Cipher_encrypt(b, blk) ==
  CASE b = "TTable"    -> TTable_encrypt(tab, roundKeys[b], blk)
    [] b = "AESNI"     -> AESNI_encrypt(roundKeys[b], blk)
    [] b = "ModernISA" -> ModernISA_encrypt(avxSupported, roundKeys[b], blk)

\* b.decrypt(blk, out): the 16 bytes written to out
Cipher_decrypt(b, blk) ==
  CASE b = "TTable"    -> TTable_decrypt(tab, roundKeys[b], blk)
    [] b = "AESNI"     -> AESNI_decrypt(roundKeys[b], blk)
    [] b = "ModernISA" -> ModernISA_decrypt(avxSupported, roundKeys[b], blk)

\* main() tests the backends one after the other: backend number n is
\* tested once the earlier ones have completed their round trip
Turn(n) == \A m \in 1..(n - 1) : phase[Backends[m]] = "decrypt"

\* One object of each backend has been constructed (TTable() has filled the
\* tables, ModernISA() has probed the processor); the test has chosen its key
\* and block.  The round keys of an object are not initialised by its
\* constructor: <<>> stands for that, and no call reads them before setKey.
CipherInit ==
  /\ tab = TTable_initializeTables(StaticTables)
  /\ avxSupported \in BOOLEAN
  /\ roundKeys = [b \in BackendSet |-> << >>]
  /\ key \in {KeyOf(n) : n \in 1..NKeys}
  /\ plaintext \in {BlockOf(n) : n \in 1..NBlocks}
  /\ ciphertext = [b \in BackendSet |-> FreshBuffer(1)]
  /\ decrypted = [b \in BackendSet |-> FreshBuffer(1)]
  /\ phase = [b \in BackendSet |-> "new"]
  /\ blockCount = 0
  /\ batch_plaintext = << >>
  /\ batch_ciphertext = FreshBuffer(MaxBlocks + 1)
  /\ batch_decrypted = FreshBuffer(MaxBlocks + 1)
  /\ batchPhase = "none"
  /\ GcmIdle
  /\ MathIdle
  /\ ThreadIdle

\* sm4.setKey(test_key)
CipherSetKey(n) ==
  /\ Turn(n)
  /\ phase[Backends[n]] = "new"
  /\ roundKeys' = [roundKeys EXCEPT ![Backends[n]] = Cipher_setKey(Backends[n], key)]
  /\ phase' = [phase EXCEPT ![Backends[n]] = "setKey"]
  /\ UNCHANGED << tab, mathVars, threadVars, avxSupported, key, plaintext, ciphertext, decrypted,
                  blockCount, batch_plaintext, batch_ciphertext,
                  batch_decrypted, batchPhase, gcmVars >>

\* sm4.encrypt(test_plaintext, ciphertext)
CipherEncrypt(n) ==
  /\ Turn(n)
  /\ phase[Backends[n]] = "setKey"
  /\ ciphertext' = [ciphertext EXCEPT ![Backends[n]] = Cipher_encrypt(Backends[n], plaintext)]
  /\ phase' = [phase EXCEPT ![Backends[n]] = "encrypt"]
  /\ UNCHANGED << tab, mathVars, threadVars, avxSupported, roundKeys, key, plaintext, decrypted,
                  blockCount, batch_plaintext, batch_ciphertext,
                  batch_decrypted, batchPhase, gcmVars >>

\* sm4.decrypt(ciphertext, decrypted)
CipherDecrypt(n) ==
  /\ Turn(n)
  /\ phase[Backends[n]] = "encrypt"
  /\ decrypted' = [decrypted EXCEPT ![Backends[n]] =
                     Cipher_decrypt(Backends[n], ciphertext[Backends[n]])]
  /\ phase' = [phase EXCEPT ![Backends[n]] = "decrypt"]
  /\ UNCHANGED << tab, mathVars, threadVars, avxSupported, roundKeys, key, plaintext, ciphertext,
                  blockCount, batch_plaintext, batch_ciphertext,
                  batch_decrypted, batchPhase, gcmVars >>

\* modern_sm4.encryptBlocks(batch_plaintext, batch_ciphertext, count)
CipherEncryptBlocks(count) ==
  /\ Turn(4)
  /\ batchPhase = "none"
  /\ blockCount' = count
  /\ batch_plaintext' = BatchInput(plaintext, count)
  /\ batch_ciphertext' =
       ModernISA_encryptBlocks(avxSupported, roundKeys["ModernISA"],
                               BatchInput(plaintext, count), batch_ciphertext, count)
  /\ batchPhase' = "encryptBlocks"
  /\ UNCHANGED << tab, mathVars, threadVars, avxSupported, roundKeys, key, plaintext, ciphertext,
                  decrypted, phase, batch_decrypted, gcmVars >>

\* modern_sm4.decryptBlocks(batch_ciphertext, batch_decrypted, blockCount)
CipherDecryptBlocks ==
  /\ batchPhase = "encryptBlocks"
  /\ batch_decrypted' =
       ModernISA_decryptBlocks(avxSupported, roundKeys["ModernISA"],
                               batch_ciphertext, batch_decrypted, blockCount)
  /\ batchPhase' = "decryptBlocks"
  /\ UNCHANGED << tab, mathVars, threadVars, avxSupported, roundKeys, key, plaintext, ciphertext,
                  decrypted, phase, blockCount, batch_plaintext, batch_ciphertext,
                  gcmVars >>

CipherNext ==
  \/ \E n \in 1..3 : CipherSetKey(n)
  \/ \E n \in 1..3 : CipherEncrypt(n)
  \/ \E n \in 1..3 : CipherDecrypt(n)
  \/ \E count \in 0..MaxBlocks : CipherEncryptBlocks(count)
  \/ CipherDecryptBlocks

SpecCipher == CipherInit /\ [][CipherNext]_vars

(***************************************************************************)
(* The calls a caller makes on one SM4_GCM object.                         *)
(***************************************************************************)
\* ivUses after one more encrypt / decrypt call
Used(n) == IF n = "unset" THEN "unset" ELSE IF n = "unused" THEN "once" ELSE "again"

\* the caller's buffers after encrypt returned r
AfterEncrypt(out, r) ==
  [out EXCEPT !.ok = r.ok, !.ciphertext = r.ciphertext, !.tag = r.tag]

\* the caller's buffers after decrypt returned r
AfterDecrypt(out, r) == [out EXCEPT !.ok = r.ok, !.decrypted = r.plaintext]

\* gcm.setKey(k)
DoSetKey(k) ==
  /\ gcm' = GCM_setKey(tab, gcm, k)
  /\ gcm_call' = "setKey"
  /\ gcm_arg' = k
  /\ UNCHANGED << tab, mathVars, threadVars, cipherVars, gcm_plaintext, gcm_tagLen, tampered, ivUses >>

\* gcm.setIV(v, ivLen) with ivLen the length of v
DoSetIV(v) ==
  /\ gcm' = GCM_setIV(gcm, v, Len(v))
  /\ gcm_call' = "setIV"
  /\ gcm_arg' = v
  /\ ivUses' = "unused"
  /\ UNCHANGED << tab, mathVars, threadVars, cipherVars, gcm_plaintext, gcm_tagLen, tampered >>

\* gcm.setAAD(a, aadLen) with aadLen the length of a
DoSetAAD(a) ==
  /\ gcm' = GCM_setAAD(gcm, a, Len(a))
  /\ gcm_call' = "setAAD"
  /\ gcm_arg' = a
  /\ UNCHANGED << tab, mathVars, threadVars, cipherVars, gcm_plaintext, gcm_tagLen, ivUses >>

\* gcm.encrypt(P, ptLen, ciphertext, tag, tagLen) with ptLen the length of P
DoEncrypt(P, tagLen) ==
  /\ gcm_plaintext' = P
  /\ gcm_tagLen' = tagLen
  /\ gcm_out' = AfterEncrypt(gcm_out,
                  GCM_encrypt(tab, gcm, P, Len(P), gcm_out.ciphertext, gcm_out.tag, tagLen))
  /\ gcm_call' = "encrypt"
  /\ ivUses' = Used(ivUses)
  /\ UNCHANGED << tab, mathVars, threadVars, cipherVars, gcm, gcm_arg, tampered >>

\* gcm.decrypt(ciphertext, ctLen, tag, tagLen, decrypted) with the length and
\* the tag length that were given to encrypt
DoDecrypt ==
  /\ gcm_out' = AfterDecrypt(gcm_out,
                  GCM_decrypt(tab, gcm, gcm_out.ciphertext, Len(gcm_plaintext),
                              gcm_out.tag, gcm_tagLen, gcm_out.decrypted))
  /\ gcm_call' = "decrypt"
  /\ ivUses' = Used(ivUses)
  /\ UNCHANGED << tab, mathVars, threadVars, cipherVars, gcm, gcm_plaintext, gcm_tagLen, gcm_arg, tampered >>

(***************************************************************************)
(* The authenticated-encryption test: setKey, setIV, setAAD, encrypt, then *)
(* decrypt of what encrypt returned or of a copy with one bit flipped.     *)
(***************************************************************************)
\* the plaintext lengths, tag lengths, IVs and AADs the test draws from
PlaintextLens == {0, 1, 15, 16, 17, 32}

TagLens == {0, 4, 16, 20}

IVs == {IV12, IV5, IV16}

AADs == {<< >>, AAD5}

\* the place of the flipped bit: the top bit of the first byte or the
\* bottom bit of byte number n
FlipAt(buf, where, n) ==
  IF where = "first" THEN FlipBit(buf, 1, 7) ELSE FlipBit(buf, n, 0)

AeadInit ==
  /\ tab = TTable_initializeTables(StaticTables)
  /\ CipherIdle
  /\ GcmIdle
  /\ MathIdle
  /\ ThreadIdle

AeadSetKey(n) ==
  /\ gcm_call = "new"
  /\ DoSetKey(KeyOf(n))
  /\ UNCHANGED gcm_out

AeadSetIV(v) ==
  /\ gcm_call = "setKey"
  /\ DoSetIV(v)
  /\ UNCHANGED gcm_out

AeadSetAAD(a) ==
  /\ gcm_call = "setIV"
  /\ DoSetAAD(a)
  /\ UNCHANGED << gcm_out, tampered >>

AeadEncrypt(len, tagLen) ==
  /\ gcm_call = "setAAD"
  /\ tampered = "none"
  /\ DoEncrypt(PlaintextOf(len), tagLen)

\* one bit of the ciphertext is flipped in the caller's buffer
TamperCiphertext(where) ==
  /\ gcm_call = "encrypt"
  /\ tampered = "none"
  /\ Len(gcm_plaintext) > 0
  /\ gcm_out' = [gcm_out EXCEPT !.ciphertext = FlipAt(@, where, Len(gcm_plaintext))]
  /\ tampered' = "ciphertext"
  /\ UNCHANGED << tab, mathVars, threadVars, cipherVars, gcm, gcm_plaintext, gcm_tagLen, gcm_call, gcm_arg, ivUses >>

\* one bit of the tag is flipped in the caller's buffer, in the first or
\* the last of the bytes that encrypt wrote
TamperTag(where) ==
  /\ gcm_call = "encrypt"
  /\ tampered = "none"
  /\ gcm_tagLen > 0
  /\ gcm_out' = [gcm_out EXCEPT !.tag = FlipAt(@, where, GCM_actualTagLen(gcm_tagLen))]
  /\ tampered' = "tag"
  /\ UNCHANGED << tab, mathVars, threadVars, cipherVars, gcm, gcm_plaintext, gcm_tagLen, gcm_call, gcm_arg, ivUses >>

\* one bit is flipped in the tag buffer behind the bytes that encrypt wrote
TamperTagTail ==
  /\ gcm_call = "encrypt"
  /\ tampered = "none"
  /\ gcm_out' = [gcm_out EXCEPT !.tag = FlipBit(@, GCM_actualTagLen(gcm_tagLen) + 1, 0)]
  /\ tampered' = "tail"
  /\ UNCHANGED << tab, mathVars, threadVars, cipherVars, gcm, gcm_plaintext, gcm_tagLen, gcm_call, gcm_arg, ivUses >>

\* the receiver is given the AAD with one bit flipped
TamperAAD(where) ==
  /\ gcm_call = "encrypt"
  /\ tampered = "none"
  /\ Len(gcm.aad) > 0
  /\ DoSetAAD(FlipAt(gcm.aad, where, Len(gcm.aad)))
  /\ tampered' = "aad"
  /\ UNCHANGED gcm_out

AeadDecrypt ==
  /\ \/ gcm_call = "encrypt"
     \/ gcm_call = "setAAD" /\ tampered = "aad"
  /\ DoDecrypt

AeadNext ==
  \/ \E n \in 1..NKeys : AeadSetKey(n)
  \/ \E v \in IVs : AeadSetIV(v)
  \/ \E a \in AADs : AeadSetAAD(a)
  \/ \E len \in PlaintextLens, tagLen \in TagLens : AeadEncrypt(len, tagLen)
  \/ \E where \in {"first", "last"} : TamperCiphertext(where)
  \/ \E where \in {"first", "last"} : TamperTag(where)
  \/ TamperTagTail
  \/ \E where \in {"first", "last"} : TamperAAD(where)
  \/ AeadDecrypt

SpecAEAD == AeadInit /\ [][AeadNext]_vars

(***************************************************************************)
(* A caller that makes the calls of SM4_GCM in any order.  It encrypts one *)
(* message with a full tag, and takes fresh buffers whenever it has        *)
(* changed the key, the IV or the AAD.                                     *)
(***************************************************************************)
GcmInit ==
  /\ tab = TTable_initializeTables(StaticTables)
  /\ CipherIdle
  /\ MathIdle
  /\ ThreadIdle
  /\ gcm \in {Indeterminate(u) : u \in 1..2}
  /\ gcm_plaintext = PlaintextOf(1)
  /\ gcm_tagLen = 16
  /\ gcm_out = NoOutput
  /\ gcm_call = "new"
  /\ gcm_arg = << >>
  /\ tampered = "none"
  /\ ivUses = "unset"

GcmSetKey(n) ==
  /\ DoSetKey(KeyOf(n))
  /\ gcm_out' = NoOutput

GcmSetIV(v) ==
  /\ DoSetIV(v)
  /\ gcm_out' = NoOutput

GcmSetAAD(a) ==
  /\ DoSetAAD(a)
  /\ gcm_out' = NoOutput
  /\ UNCHANGED tampered

GcmEncrypt == DoEncrypt(gcm_plaintext, gcm_tagLen)

GcmDecrypt == DoDecrypt

\* gcm.clear()
GcmClear ==
  /\ gcm' = GCM_clear(gcm)
  /\ gcm_call' = "clear"
  /\ gcm_out' = NoOutput
  /\ UNCHANGED << tab, mathVars, threadVars, cipherVars, gcm_plaintext, gcm_tagLen, gcm_arg, tampered, ivUses >>

GcmNext ==
  \/ \E n \in 1..NKeys : GcmSetKey(n)
  \/ \E v \in {<< >>, IV12} : GcmSetIV(v)
  \/ \E a \in AADs : GcmSetAAD(a)
  \/ GcmEncrypt
  \/ GcmDecrypt
  \/ GcmClear

SpecGCM == GcmInit /\ [][GcmNext]_vars

(***************************************************************************)
(* Properties of the block cipher (checked under SpecCipher).              *)
(***************************************************************************)
\* the backends that have encrypted the block
Encrypted == {b \in BackendSet : phase[b] \in {"encrypt", "decrypt"}}

\* C1: on every backend, setKey(K) followed by decrypt(encrypt(B)) returns
\* exactly B.
C1_RoundTrip == \A b \in BackendSet : phase[b] = "decrypt" => decrypted[b] = plaintext

C1_Witness ==
  /\ \A b \in BackendSet : phase[b] = "decrypt"
  /\ key = KeyOf(2)
  /\ plaintext = BlockOf(2)
  /\ avxSupported

\* C2: after setKey(K) the TTable, AESNI and ModernISA backends (ModernISA
\* with avxSupported set and with it clear) produce the same 16 bytes for
\* encrypt(B), and these are the bytes given by the reference round function
\* linearTransform(sbox per byte (x)).
C2_CrossBackend ==
  /\ \A b \in Encrypted : \A c \in Encrypted : ciphertext[b] = ciphertext[c]
  /\ \A b \in Encrypted : ciphertext[b] = Basic_encrypt(roundKeys[b], plaintext)

C2_Witness ==
  /\ Encrypted = BackendSet
  /\ phase["ModernISA"] = "encrypt"
  /\ ~avxSupported
  /\ key = KeyOf(2)

\* C3: with key 0123456789abcdeffedcba9876543210 and the plaintext of the
\* same bytes, encrypt returns 681edf34d206965e86b3e94f536e4246 on every
\* backend, and decrypt of that ciphertext returns the plaintext.
C3_KnownAnswer ==
  (key = test_key /\ plaintext = test_plaintext) =>
    \A b \in BackendSet :
      /\ b \in Encrypted => ciphertext[b] = expected_ciphertext
      /\ phase[b] = "decrypt" => decrypted[b] = test_plaintext

C3_Witness ==
  /\ key = test_key
  /\ plaintext = test_plaintext
  /\ \A b \in BackendSet : phase[b] = "decrypt"
  /\ ciphertext["AESNI"] = expected_ciphertext

\* the bytes of buf from block number count on are as the caller left them
Untouched(buf, count) == \A j \in (16 * count + 1)..Len(buf) : buf[j] = 170

\* C4: for every block count N (0, 1, 3, 4, 5, 8, 9 among them) and either
\* value of avxSupported, encryptBlocks over N blocks writes to output block
\* i < N what encrypt gives for input block i and writes nothing past block
\* N - 1; decryptBlocks relates to decrypt in the same way.
C4_BatchEquivalence ==
  /\ batchPhase = "encryptBlocks" =>
       /\ \A i \in 0..(blockCount - 1) :
            BlockAt(batch_ciphertext, i) =
              ModernISA_encrypt(avxSupported, roundKeys["ModernISA"],
                                BlockAt(batch_plaintext, i))
       /\ Untouched(batch_ciphertext, blockCount)
  /\ batchPhase = "decryptBlocks" =>
       /\ \A i \in 0..(blockCount - 1) :
            BlockAt(batch_decrypted, i) =
              ModernISA_decrypt(avxSupported, roundKeys["ModernISA"],
                                BlockAt(batch_ciphertext, i))
       /\ Untouched(batch_decrypted, blockCount)

C4_Witness ==
  /\ batchPhase = "decryptBlocks"
  /\ blockCount = 9
  /\ avxSupported
  /\ batch_decrypted # FreshBuffer(MaxBlocks + 1)

(***************************************************************************)
(* Properties of SM4_GCM (C5 to C7 under SpecAEAD, C8 to C10 under         *)
(* SpecGCM).                                                               *)
(***************************************************************************)
\* no byte of the three output buffers has been written
NothingWritten ==
  /\ gcm_out.ciphertext = Unwritten(BufLen)
  /\ gcm_out.tag = Unwritten(TagBufLen)
  /\ gcm_out.decrypted = Unwritten(BufLen)

\* C5: for every key, non-empty IV (of 12 bytes or not), AAD, tag length
\* up to 16 and plaintext P of length 0, 1, 15, 16, 17 or 32, encrypt
\* succeeds, and decrypt of what it returned, under the same key, IV, AAD
\* and tag length, succeeds and outputs exactly P.
C5_AeadRoundTrip ==
  tampered = "none" =>
    /\ gcm_call = "encrypt" => gcm_out.ok
    /\ gcm_call = "decrypt" =>
         /\ gcm_out.ok
         /\ SubSeq(gcm_out.decrypted, 1, Len(gcm_plaintext)) = gcm_plaintext

C5_Witness ==
  /\ gcm_call = "decrypt"
  /\ tampered = "none"
  /\ gcm.iv = IV5
  /\ gcm.aad = AAD5
  /\ Len(gcm_plaintext) = 17
  /\ gcm_tagLen = 4

\* C6: when decrypt finds that the supplied tag differs from the expected
\* tag it returns failure and no byte of the plaintext buffer is written.
C6_NoPlaintextOnFailure ==
  (gcm_call = "decrypt" /\ ~gcm_out.ok) => gcm_out.decrypted = Unwritten(BufLen)

C6_Witness ==
  /\ gcm_call = "decrypt"
  /\ tampered = "ciphertext"
  /\ Len(gcm_plaintext) = 32
  /\ ~gcm_out.ok

\* C7 as stated: flipping any single bit of the ciphertext, of the tag or
\* of the AAD before decrypt makes decrypt fail.
C7_AnyFlipDetected ==
  (gcm_call = "decrypt" /\ tampered \in {"ciphertext", "tag", "aad"}) => ~gcm_out.ok

\* C7, amended: a flipped bit of the tag is detected when it lies in the
\* tagLen bytes that are compared, and a flipped bit of the ciphertext or
\* of the AAD is detected when the tag has its full 16 bytes and H is not 0.
C7_FlipDetected ==
  (/\ gcm_call = "decrypt"
   /\ \/ tampered = "tag" /\ gcm_tagLen >= 1
      \/ /\ tampered \in {"ciphertext", "aad"}
         /\ gcm_tagLen = 16
         /\ gcm.H # << ZeroWord64, ZeroWord64 >>)
  => ~gcm_out.ok

C7_Witness ==
  /\ gcm_call = "decrypt"
  /\ tampered = "aad"
  /\ gcm_tagLen = 16
  /\ gcm.iv = IV12

\* C8: while setIV has never been called, encrypt and decrypt return false
\* and write nothing to the ciphertext, tag or plaintext buffers.
C8_MissingIV ==
  (ivUses = "unset" /\ gcm_call \in {"encrypt", "decrypt"}) =>
    (~gcm_out.ok /\ NothingWritten)

C8_Witness ==
  /\ ivUses = "unset"
  /\ gcm_call = "decrypt"
  /\ gcm.aad = AAD5

\* C9 as stated: setIV stores an IV of any length, and once setIV has been
\* called, with length 0 too, the following encrypt is not refused.
C9_EmptyIVCountsAsSet ==
  /\ gcm_call = "setIV" => gcm.iv = gcm_arg
  /\ (ivUses # "unset" /\ gcm_call = "encrypt") => gcm_out.ok

\* C9, amended: setIV stores an IV of any length, length 0 included,
\* without rejecting it; but while the stored IV has length 0 the following
\* encrypt / decrypt is refused like one without an IV: it returns false and
\* writes nothing.
C9_EmptyIVRefused ==
  /\ gcm_call = "setIV" => gcm.iv = gcm_arg
  /\ (ivUses # "unset" /\ Len(gcm.iv) = 0 /\ gcm_call \in {"encrypt", "decrypt"}) =>
       (~gcm_out.ok /\ NothingWritten)

C9_Witness ==
  /\ ivUses = "once"
  /\ Len(gcm.iv) = 0
  /\ gcm_call = "encrypt"

\* C10 as stated: setIV / setAAD replace the stored buffers, and the IV
\* applies to the next encrypt / decrypt only: a later one without a new
\* setIV is refused.
C10_NextCallOnly ==
  /\ gcm_call = "setIV" => gcm.iv = gcm_arg
  /\ gcm_call = "setAAD" => gcm.aad = gcm_arg
  /\ (ivUses = "again" /\ gcm_call \in {"encrypt", "decrypt"}) => ~gcm_out.ok

\* what C10 says of a state: the stored buffer is the last argument, and
\* an encrypt that is not the first one since setIV still succeeds
Replaced ==
  /\ gcm_call = "setIV" => gcm.iv = gcm_arg
  /\ gcm_call = "setAAD" => gcm.aad = gcm_arg
  /\ (ivUses = "again" /\ gcm_call = "encrypt" /\ Len(gcm.iv) > 0) => gcm_out.ok

\* what C10 says of a step: encrypt and decrypt leave the stored IV and AAD
\* as they are
Kept ==
  gcm_call' \in {"encrypt", "decrypt"} => (gcm'.iv = gcm.iv /\ gcm'.aad = gcm.aad)

\* C10, amended: setIV / setAAD replace the stored buffers (the stored
\* value is the last argument, never a concatenation), and the stored IV
\* and AAD stay in effect for every later encrypt / decrypt until setIV /
\* setAAD is called again: the calls leave them in place, and an encrypt
\* that is not the first since setIV is not refused.
C10_InEffectUntilReplaced == []Replaced /\ [][Kept]_vars

C10_Witness ==
  /\ ivUses = "again"
  /\ gcm_call = "encrypt"
  /\ gcm.iv = IV12
  /\ gcm.aad = AAD5
  /\ gcm_out.ok

(***************************************************************************)
(* The session states of SM4_GCM (checked under SpecGCM).                  *)
(***************************************************************************)
\* the object holds the round keys and the subkey that a setKey call leaves
KeySet ==
  /\ \E n \in 1..NKeys : gcm.sm4 = TTable_setKey(KeyOf(n))
  /\ gcm.H = GCM_generateSubkey(tab, gcm.sm4)

\* C11: an encrypt or decrypt completes successfully only from Ready, that
\* is only after setKey has been called and an IV has been set on the
\* session.
C11_SuccessOnlyFromReady ==
  (gcm_call \in {"encrypt", "decrypt"} /\ gcm_out.ok) => (KeySet /\ ivUses # "unset")

\* what C12 says of a state: setKey(K) leaves the round keys of K, and an H
\* whose 16 bytes are the encryption of the all-zero block under K
SubkeyDerived ==
  gcm_call = "setKey" =>
    /\ gcm.sm4 = TTable_setKey(gcm_arg)
    /\ GCM_hBytes(gcm.H) = TTable_encrypt(tab, TTable_setKey(gcm_arg), ZeroBlock)

\* what C12 says of a step: the calls that do not change the key leave the
\* round keys and H as they are
SubkeyKept ==
  gcm_call' \in {"setIV", "setAAD", "encrypt", "decrypt"} =>
    (gcm'.sm4 = gcm.sm4 /\ gcm'.H = gcm.H)

\* C12: after any sequence of calls whose most recent key-changing call is
\* setKey(K), the stored H is the encryption of the all-zero block under K,
\* also after several setKey calls with different keys.
C12_SubkeyOfLastKey == []SubkeyDerived /\ [][SubkeyKept]_vars

C12_Witness ==
  /\ gcm_call = "setKey"
  /\ gcm_arg = KeyOf(2)
  /\ ivUses = "again"

\* every element of the sequence v is zero
AllZero(v, zero) == \A j \in 1..Len(v) : v[j] = zero

\* C13: clear() sets all 32 round-key words, both words of H, every byte of
\* the IV buffer and every byte of the AAD buffer to zero, and calling it
\* again leaves the same state.
C13_ClearZeroes ==
  gcm_call = "clear" =>
    /\ Len(gcm.sm4) = 32 /\ AllZero(gcm.sm4, ZeroWord)
    /\ Len(gcm.H) = 2 /\ AllZero(gcm.H, ZeroWord64)
    /\ AllZero(gcm.iv, 0)
    /\ AllZero(gcm.aad, 0)
    /\ GCM_clear(gcm) = gcm

C13_Witness ==
  /\ gcm_call = "clear"
  /\ Len(gcm.iv) = 12
  /\ Len(gcm.aad) = 5
  /\ ivUses = "once"

(***************************************************************************)
(* gfmul and ghash on their own: the arguments are drawn from samples, one *)
(* call is made, and its result is kept.                                   *)
(***************************************************************************)
NSamples == 5

\* 16-byte samples: zero, the field's one (bit 0 is the top bit of byte 0),
\* the test vectors, and patterned blocks
SampleBlock(n) ==
  CASE n = 1 -> ZeroBlock
    [] n = 2 -> [ZeroBlock EXCEPT ![1] = 128]
    [] n = 3 -> test_key
    [] n = 4 -> expected_ciphertext
    [] OTHER -> Block([j \in 1..16 |-> (n * 37 + j * j * 11) % 256])

\* the values of len given to ghash
GhashLens == { 0, 1, 15, 16, 17, 31, 32 }

MathInit ==
  /\ tab = TTable_initializeTables(StaticTables)
  /\ CipherIdle
  /\ GcmIdle
  /\ ThreadIdle
  /\ fn_call = "none"
  /\ gf_x \in { SampleBlock(n) : n \in 1..NSamples }
  /\ gf_y \in { SampleBlock(n) : n \in 1..NSamples }
  /\ gh_data \in { PlaintextOf(len) : len \in GhashLens }
  /\ fn_result = << >>

\* gfmul(gf_x, gf_y, fn_result)
MathGfmul ==
  /\ fn_call = "none"
  /\ fn_call' = "gfmul"
  /\ fn_result' = GCM_gfmul(gf_x, gf_y)
  /\ UNCHANGED << tab, threadVars, cipherVars, gcmVars, gf_x, gf_y, gh_data >>

\* ghash(gh_data, len, fn_result) on an object whose H packs gf_y
MathGhash ==
  /\ fn_call = "none"
  /\ fn_call' = "ghash"
  /\ fn_result' = GCM_ghash(GCM_packH(gf_y), gh_data)
  /\ UNCHANGED << tab, threadVars, cipherVars, gcmVars, gf_x, gf_y, gh_data >>

MathNext ==
  \/ MathGfmul
  \/ MathGhash

SpecMath == MathInit /\ [][MathNext]_vars

\* C14: gfmul is commutative: the product gfmul(x, y) the code computes is
\* the one it computes for gfmul(y, x).
C14_GfmulCommutes ==
  fn_call = "gfmul" => fn_result = GCM_gfmul(gf_y, gf_x)

C14_Witness ==
  /\ fn_call = "gfmul"
  /\ gf_x = test_key
  /\ gf_y = expected_ciphertext
  /\ fn_result # ZeroBlock
  /\ fn_result # gf_x

\* data followed by zero bytes up to the next multiple of 16
ZeroPadded(data) == data \o [j \in 1..((16 - (Len(data) % 16)) % 16) |-> 0]

\* Y := gfmul(Y XOR block, H) over the 16-byte blocks i, i+1, .. of d, in order
RECURSIVE FoldBlocks(_, _, _, _)
FoldBlocks(h_bytes, d, y, i) ==
  IF 16 * i >= Len(d) THEN y
  ELSE FoldBlocks(h_bytes, d,
         GCM_gfmul(Xor16(y, SubSeq(d, 16 * i + 1, 16 * i + 16)), h_bytes), i + 1)

\* C19: ghash of empty data is the zero block; ghash of any data is the fold
\* Y := gfmul(Y XOR block, H) over the blocks of the data padded with zeros on
\* the right, so it equals ghash of the padded data.
C19_GhashFold ==
  fn_call = "ghash" =>
    /\ gh_data = << >> => fn_result = ZeroBlock
    /\ fn_result = FoldBlocks(gf_y, ZeroPadded(gh_data), ZeroBlock, 0)
    /\ fn_result = GCM_ghash(GCM_packH(gf_y), ZeroPadded(gh_data))

C19_Witness ==
  /\ fn_call = "ghash"
  /\ Len(gh_data) = 17
  /\ gf_y = test_key
  /\ fn_result # ZeroBlock
  /\ fn_result # GCM_ghash(GCM_packH(gf_y), SubSeq(gh_data, 1, 16))

(***************************************************************************)
(* Threads that each construct a TTable while the statics are still as     *)
(* loaded.  TTable::TTable() calls initializeTables(), which reads and     *)
(* writes tablesInitialized and T0 .. T3 without a lock or an atomic: the  *)
(* threads' steps interleave, and the store to the flag may become visible *)
(* to the other threads before the stores of the loop.                     *)
(***************************************************************************)
NThreads == 2

Threads == 1..NThreads

\* the iterations of for (i = 0; i < 256; i++) taken in one step
FillChunk == 64

\* iterations lo .. hi-1 of the loop of initializeTables on the statics
TTable_fillEntries(statics, lo, hi) ==
  [statics EXCEPT
     !.T0 = [i \in Byte |-> IF i >= lo /\ i < hi
                            THEN linearTransform(Shl32(U32(sbox(i)), 24)) ELSE @[i]],
     !.T1 = [i \in Byte |-> IF i >= lo /\ i < hi
                            THEN linearTransform(Shl32(U32(sbox(i)), 16)) ELSE @[i]],
     !.T2 = [i \in Byte |-> IF i >= lo /\ i < hi
                            THEN linearTransform(Shl32(U32(sbox(i)), 8)) ELSE @[i]],
     !.T3 = [i \in Byte |-> IF i >= lo /\ i < hi
                            THEN linearTransform(Shl32(U32(sbox(i)), 0)) ELSE @[i]]]

TableInitInit ==
  /\ tab = StaticTables
  /\ CipherIdle
  /\ GcmIdle
  /\ MathIdle
  /\ pc = [t \in Threads |-> "start"]
  /\ fill_i = [t \in Threads |-> 0]
  /\ entered = {}
  /\ flagStored = [t \in Threads |-> FALSE]

\* if (tablesInitialized) return;
InitTest(t) ==
  /\ pc[t] = "start"
  /\ IF tab.tablesInitialized
     THEN pc' = [pc EXCEPT ![t] = "done"] /\ UNCHANGED entered
     ELSE pc' = [pc EXCEPT ![t] = "fill"] /\ entered' = entered \cup {t}
  /\ UNCHANGED << tab, mathVars, cipherVars, gcmVars, fill_i, flagStored >>

\* the next iterations of the loop
InitFill(t) ==
  /\ pc[t] = "fill"
  /\ tab' = TTable_fillEntries(tab, fill_i[t], fill_i[t] + FillChunk)
  /\ fill_i' = [fill_i EXCEPT ![t] = @ + FillChunk]
  /\ pc' = [pc EXCEPT ![t] = IF fill_i[t] + FillChunk >= 256 THEN "store" ELSE "fill"]
  /\ UNCHANGED << mathVars, cipherVars, gcmVars, entered, flagStored >>

\* tablesInitialized = true seen by the other threads while this thread's
\* loop is still storing entries
InitFlagEarly(t) ==
  /\ pc[t] = "fill"
  /\ ~flagStored[t]
  /\ tab' = [tab EXCEPT !.tablesInitialized = TRUE]
  /\ flagStored' = [flagStored EXCEPT ![t] = TRUE]
  /\ UNCHANGED << mathVars, cipherVars, gcmVars, pc, fill_i, entered >>

\* tablesInitialized = true; and the return from the constructor
InitStoreFlag(t) ==
  /\ pc[t] = "store"
  /\ tab' = [tab EXCEPT !.tablesInitialized = TRUE]
  /\ flagStored' = [flagStored EXCEPT ![t] = TRUE]
  /\ pc' = [pc EXCEPT ![t] = "done"]
  /\ UNCHANGED << mathVars, cipherVars, gcmVars, fill_i, entered >>

TableInitNext ==
  \E t \in Threads :
    \/ InitTest(t)
    \/ InitFill(t)
    \/ InitFlagEarly(t)
    \/ InitStoreFlag(t)

SpecTableInit == TableInitInit /\ [][TableInitNext]_vars

\* every entry of T0 .. T3 has its value
TablesComplete ==
  /\ tab.T0 = TTable_table(0)
  /\ tab.T1 = TTable_table(1)
  /\ tab.T2 = TTable_table(2)
  /\ tab.T3 = TTable_table(3)

\* C15: the body of initializeTables is run by at most one of the threads
\* that construct a TTable concurrently, and whenever tablesInitialized is
\* true or a thread has returned from the constructor, all 256 entries of
\* the four tables are written.
C15_InitOnceAndSafe ==
  /\ Cardinality(entered) <= 1
  /\ (tab.tablesInitialized \/ \E t \in Threads : pc[t] = "done") => TablesComplete

\* the counter block whose encryption masks the tag the caller holds: the
\* tag XOR ghash of the authenticated data, decrypted under the session key
MaskedBlock ==
  TTable_decrypt(tab, gcm.sm4,
    Xor16(gcm_out.tag,
          GCM_ghash(gcm.H, GCM_authData(gcm.aad, gcm_out.ciphertext, Len(gcm_plaintext)))))

\* C16: J0 is the 12 bytes of the IV followed by 00 00 00 01 if the IV has 12
\* bytes and ghash(H, IV) for any other non-empty IV; encrypt masks the tag
\* with E_K(J0), and decrypt derives the same mask, so it accepts the tag.
C16_BaseCounter ==
  (gcm_call \in {"encrypt", "decrypt"} /\ tampered = "none" /\ gcm_tagLen = 16) =>
    /\ MaskedBlock = IF Len(gcm.iv) = 12 THEN gcm.iv \o << 0, 0, 0, 1 >>
                     ELSE GCM_ghash(gcm.H, gcm.iv)
    /\ gcm_call = "decrypt" => gcm_out.ok

C16_Witness ==
  /\ gcm_call = "decrypt"
  /\ tampered = "none"
  /\ gcm_tagLen = 16
  /\ Len(gcm.iv) # 12
  /\ Len(gcm_plaintext) = 17
  /\ gcm_out.ok

\* the block j0 with its last four bytes, read as a big-endian number,
\* increased by n < 256 modulo 2^32: the carry ripples from byte 15 up to
\* byte 12 and is dropped there
AddLow(j0, n) ==
  LET s15 == j0[16] + n
      s14 == j0[15] + (s15 \div 256)
      s13 == j0[14] + (s14 \div 256)
      s12 == j0[13] + (s13 \div 256)
  IN  SubSeq(j0, 1, 12) \o << s12 % 256, s13 % 256, s14 % 256, s15 % 256 >>

\* E_K(ctr_b) for the session's key and IV
KeystreamBlock(b) ==
  TTable_encrypt(tab, gcm.sm4, AddLow(GCM_j0(gcm.H, gcm.iv), b + 1))

\* the number of plaintext bytes in block b
BytesIn(b) ==
  IF Len(gcm_plaintext) - 16 * b < 16 THEN Len(gcm_plaintext) - 16 * b ELSE 16

\* C17: byte k of the ciphertext is byte k of the plaintext XOR byte k mod 16
\* of E_K(ctr_b), b = k div 16, ctr_b being J0 with its low 32 bits increased
\* by b + 1 modulo 2^32 and its first 12 bytes kept; the bytes of the buffer
\* from ptLen on are not written.
C17_CounterMode ==
  (gcm_call = "encrypt" /\ tampered = "none" /\ gcm_out.ok) =>
    /\ \A b \in 0..((Len(gcm_plaintext) + 15) \div 16) - 1 :
         SubSeq(gcm_out.ciphertext, 16 * b + 1, 16 * b + BytesIn(b)) =
           SubSeq(Xor16(GCM_paddedBlock(gcm_plaintext, b), KeystreamBlock(b)), 1, BytesIn(b))
    /\ \A k \in Len(gcm_plaintext) + 1..BufLen :
         gcm_out.ciphertext[k] = Unwritten(BufLen)[k]

C17_Witness ==
  /\ gcm_call = "encrypt"
  /\ tampered = "none"
  /\ gcm_out.ok
  /\ Len(gcm_plaintext) = 17
  /\ SubSeq(GCM_j0(gcm.H, gcm.iv), 12, 16) = << 16, 255, 255, 255, 255 >>
  /\ SubSeq(AddLow(GCM_j0(gcm.H, gcm.iv), 2), 12, 16) = << 16, 0, 0, 0, 1 >>

\* be64(8 * n), n < 2^28
Be64Bits(n) ==
  << 0, 0, 0, 0, ((8 * n) \div (256 * 256 * 256)) % 256,
     ((8 * n) \div (256 * 256)) % 256, ((8 * n) \div 256) % 256, (8 * n) % 256 >>

\* ghash(H, AAD || ciphertext || be64(8 len(AAD)) || be64(8 len(ciphertext)))
\* XOR E_K(J0), for the session and the ciphertext buffer as they are
FullTag ==
  Xor16(GCM_ghash(gcm.H, gcm.aad \o SubSeq(gcm_out.ciphertext, 1, Len(gcm_plaintext))
                           \o Be64Bits(Len(gcm.aad)) \o Be64Bits(Len(gcm_plaintext))),
        TTable_encrypt(tab, gcm.sm4, GCM_j0(gcm.H, gcm.iv)))

\* min(tagLen, 16)
ComparedLen == IF gcm_tagLen < 16 THEN gcm_tagLen ELSE 16

\* what encrypt writes to a fresh tag buffer when asked for a tag of 16 bytes
Tag16 ==
  GCM_encrypt(tab, gcm, gcm_plaintext, Len(gcm_plaintext),
              Unwritten(BufLen), Unwritten(TagBufLen), 16).tag

\* C18: encrypt writes as tag the first min(tagLen, 16) bytes of
\* ghash(H, AAD || C || be64(8 len(AAD)) || be64(8 len(C))) XOR E_K(J0) and
\* no further byte of the tag buffer; a tag of t <= 16 bytes is the prefix of
\* the 16-byte tag for the same key, IV, AAD and plaintext.
C18_TagSynthesis ==
  (gcm_call = "encrypt" /\ tampered = "none" /\ gcm_out.ok) =>
    /\ gcm_out.tag = SubSeq(FullTag, 1, ComparedLen)
                        \o SubSeq(Unwritten(TagBufLen), ComparedLen + 1, TagBufLen)
    /\ gcm_tagLen <= 16 =>
         SubSeq(gcm_out.tag, 1, gcm_tagLen) = SubSeq(Tag16, 1, gcm_tagLen)

C18_Witness ==
  /\ gcm_call = "encrypt"
  /\ tampered = "none"
  /\ gcm_out.ok
  /\ gcm_tagLen = 20
  /\ gcm.aad = AAD5
  /\ Len(gcm_plaintext) = 17
  /\ SubSeq(gcm_out.tag, 13, 16) = SubSeq(FullTag, 13, 16)
  /\ gcm_out.tag[17] = Unwritten(TagBufLen)[17]

\* C20: decrypt with a non-empty IV succeeds exactly when the supplied tag
\* equals the expected tag on its first min(tagLen, 16) bytes: with tagLen 0
\* it succeeds whatever the ciphertext, and a tag byte behind the compared
\* ones does not change the result.
C20_TagCompare ==
  gcm_call = "decrypt" =>
    /\ gcm_out.ok <=>
         SubSeq(gcm_out.tag, 1, ComparedLen) = SubSeq(FullTag, 1, ComparedLen)
    /\ gcm_tagLen = 0 => gcm_out.ok
    /\ tampered = "tail" => gcm_out.ok

C20_Witness ==
  /\ gcm_call = "decrypt"
  /\ tampered = "tail"
  /\ gcm_tagLen = 4
  /\ gcm_out.tag[5] # Unwritten(TagBufLen)[5]
  /\ Len(gcm_plaintext) = 17
  /\ gcm_out.ok

\* the stored IV is what clear() leaves of a non-empty IV: setIV is only
\* given IVs with a non-zero byte, so zeros alone come from clear()
ZeroedIV == Len(gcm.iv) > 0 /\ AllZero(gcm.iv, 0)

\* what C21 says of a step: clear() keeps the lengths of iv and aad and
\* fills them with zeros
LengthsKept ==
  gcm_call' = "clear" =>
    /\ Len(gcm'.iv) = Len(gcm.iv) /\ AllZero(gcm'.iv, 0)
    /\ Len(gcm'.aad) = Len(gcm.aad) /\ AllZero(gcm'.aad, 0)

\* what C21 says of a state: with the zeroed IV still stored, encrypt is not
\* refused and uses J0 = 0^96 || 00 00 00 01, and the result of decrypt is
\* decided by the comparison of the tag alone
ZeroedIVUsed ==
  ZeroedIV =>
    /\ gcm_call = "encrypt" =>
         /\ gcm_out.ok
         /\ Len(gcm.iv) = 12 => MaskedBlock = gcm.iv \o << 0, 0, 0, 1 >>
    /\ gcm_call = "decrypt" =>
         (gcm_out.ok <=> SubSeq(gcm_out.tag, 1, 16) = SubSeq(FullTag, 1, 16))

\* C21: clear() fills the IV and the AAD with zeros and keeps their lengths,
\* so after clear() of a session with a non-empty IV the IV is still
\* non-empty, and encrypt / decrypt without a new setIV are not refused but
\* run with the all-zero IV and AAD of the old lengths.
C21_ClearKeepsLengths == []ZeroedIVUsed /\ [][LengthsKept]_vars

C21_Witness ==
  /\ gcm_call = "decrypt"
  /\ gcm.iv = << 0, 0, 0, 0, 0, 0, 0, 0, 0, 0, 0, 0 >>
  /\ gcm.aad = << 0, 0, 0, 0, 0 >>
  /\ AllZero(gcm.sm4, ZeroWord)
  /\ gcm_out.ok
  /\ gcm_out.decrypted[1] = gcm_plaintext[1]

\* what C22 says of a step of the session
FrameStep ==
  /\ gcm_call' \in {"encrypt", "decrypt"} => gcm' = gcm
  /\ gcm_call' = "setKey" => (gcm'.iv = gcm.iv /\ gcm'.aad = gcm.aad)
  /\ gcm_call' = "setIV" =>
       (gcm'.sm4 = gcm.sm4 /\ gcm'.H = gcm.H /\ gcm'.aad = gcm.aad)
  /\ gcm_call' = "setAAD" =>
       (gcm'.sm4 = gcm.sm4 /\ gcm'.H = gcm.H /\ gcm'.iv = gcm.iv)
  /\ (gcm_call = "encrypt" /\ gcm_call' = "encrypt") => gcm_out' = gcm_out

\* C22: encrypt and decrypt, succeeding or not, leave the round keys, H, the
\* IV and the AAD as they are; setKey leaves the IV and the AAD, setIV
\* changes only the IV and setAAD only the AAD; so encrypt repeated on the
\* unchanged session gives the same result, ciphertext and tag.
C22_Frame == [][FrameStep]_vars

C22_Witness ==
  /\ gcm_call = "encrypt"
  /\ ivUses = "again"
  /\ gcm.sm4 = TTable_setKey(KeyOf(2))
  /\ gcm.iv = IV12
  /\ gcm.aad = << >>
  /\ gcm_out.ok
  /\ SubSeq(gcm_out.tag, 1, 16) = SubSeq(FullTag, 1, 16)

\* what encrypt returns on fresh buffers for a second session with the key
\* and the IV of this one, the AAD a, the same plaintext and the tag length t
OtherSession(a, t) ==
  GCM_encrypt(tab, [gcm EXCEPT !.aad = a], gcm_plaintext, Len(gcm_plaintext),
              Unwritten(BufLen), Unwritten(TagBufLen), t)

\* an AAD and a tag length that differ from those of this session
OtherAAD == IF gcm.aad = << >> THEN AAD5 ELSE << >>

OtherTagLen == IF gcm_tagLen = 16 THEN 0 ELSE 16

\* C23: the ciphertext of encrypt does not depend on the AAD or on the tag
\* length: a session with the same key, IV and plaintext and another AAD, or
\* another tag length, produces the same ciphertext bytes.
C23_CiphertextIndependent ==
  (gcm_call = "encrypt" /\ tampered = "none" /\ gcm_out.ok) =>
    /\ gcm_out.ciphertext = OtherSession(OtherAAD, gcm_tagLen).ciphertext
    /\ gcm_out.ciphertext = OtherSession(gcm.aad, OtherTagLen).ciphertext

C23_Witness ==
  /\ gcm_call = "encrypt"
  /\ tampered = "none"
  /\ gcm_out.ok
  /\ Len(gcm_plaintext) = 17
  /\ gcm.aad = AAD5
  /\ gcm_tagLen = 16
  /\ gcm_out.tag # OtherSession(OtherAAD, gcm_tagLen).tag
  /\ gcm_out.tag # OtherSession(gcm.aad, OtherTagLen).tag

====
